---- MODULE Spec2Model ----
(***************************************************************************)
(* Modbus RTU master (src/Templates/Modbus_Master_Base_v1.py): CRC16,      *)
(* response parsing, the locked transmit/receive cycle, connect and        *)
(* disconnect, and the register read/write operations built on them.       *)
(***************************************************************************)
EXTENDS Integers, Sequences, FiniteSets, TLC

(* ---------------------------------------------------------------- bounds *)
\* largest byte-count field / number of data bytes a modelled device sends
MaxByteCount == 3
\* cap on the requests_sent and timeouts counters (guards of Call)
MaxRequests == 2

(* ------------------------------------------------------- byte arithmetic *)
Pow2(k) == 2 ^ k

Bit(x, k) == (x \div Pow2(k)) % 2

\* x ^ (1 << k)
ToggleBit(x, k) == IF Bit(x, k) = 1 THEN x - Pow2(k) ELSE x + Pow2(k)

\* bit k of a ^ b, in place
XorBit(a, b, k) == ((Bit(a, k) + Bit(b, k)) % 2) * Pow2(k)

\* crc ^ byte for a byte in 0..255: only the low 8 bits of crc change
XorByte(crc, byte) ==
    (crc - (crc % 256))
    + XorBit(crc, byte, 0) + XorBit(crc, byte, 1) + XorBit(crc, byte, 2)
    + XorBit(crc, byte, 3) + XorBit(crc, byte, 4) + XorBit(crc, byte, 5)
    + XorBit(crc, byte, 6) + XorBit(crc, byte, 7)

\* x ^ 0xA001: bits 0, 13 and 15 are inverted
XorA001(x) == ToggleBit(ToggleBit(ToggleBit(x, 0), 13), 15)

\* a & 0x7F, a & 0x80 on a byte
And7F(a) == a % 128
And80(a) == IF a % 256 >= 128 THEN 128 ELSE 0

(* ------------------------------------------------------------------ CRC *)
CrcInit == 65535    \* 0xFFFF

\* the element of a singleton set; {e(c) : c \in {crc}} computes crc once
TheOnly(S) == CHOOSE v \in S : TRUE

\* if crc & 0x0001: crc = (crc >> 1) ^ 0xA001  else: crc >>= 1
CrcStep_no_xor(crc) == crc \div 2
CrcStep(crc) ==
    TheOnly({IF c % 2 = 1 THEN XorA001(c \div 2) ELSE c \div 2 : c \in {crc}})

\* for _ in range(8)
CrcShift_seven_steps(crc) ==
    CrcStep(CrcStep(CrcStep(CrcStep(CrcStep(CrcStep(CrcStep(crc)))))))
CrcShift(crc) ==
    CrcStep(CrcStep(CrcStep(CrcStep(CrcStep(CrcStep(CrcStep(CrcStep(crc))))))))

\* for byte in data: crc ^= byte, then the 8 shifts
RECURSIVE CrcFold(_, _, _)
CrcFold(data, i, crc) ==
    IF i > Len(data) THEN crc
    ELSE TheOnly({CrcFold(data, i + 1, c) :
                     c \in {CrcShift(XorByte(crc, data[i]))}})

calculate_crc(data) == CrcFold(data, 1, CrcInit) % 65536

\* struct.pack('<H', v), struct.pack('>H', v), struct.unpack('<H', b)
PackLE16(v) == << v % 256, v \div 256 >>
PackBE16(v) == << v \div 256, v % 256 >>
UnpackLE16(b) == b[1] + 256 * b[2]
UnpackBE16_swapped(b) == b[1] + 256 * b[2]
UnpackBE16(b) == 256 * b[1] + b[2]

\* data[:-2], data[-2:], data[2:-2]
DropLast2(data) == SubSeq(data, 1, Len(data) - 2)
Last2(data) == SubSeq(data, Len(data) - 1, Len(data))


(* -------------------------------------------------------- ModbusResponse *)
\* None for an optional int, an optional bytes value, an optional str
NoneInt == -1
NoneBytes == << -1 >>
NoneStr == "None"

ModbusResponse(sid, fc, dat, exc, tmo, crc, raw) ==
    [slave_id |-> sid, function_code |-> fc, data |-> dat,
     exception_code |-> exc, timeout |-> tmo, crc_error |-> crc,
     raw_frame |-> raw]

\* ModbusResponse(timeout=True)
TimeoutResponse ==
    ModbusResponse(NoneInt, NoneInt, NoneBytes, NoneInt, TRUE, FALSE, NoneBytes)

is_valid(r) == ~r.timeout /\ ~r.crc_error

is_exception(r) == r.exception_code # NoneInt

exceptions_without_11 ==
    (1 :> "Illegal Function") @@ (2 :> "Illegal Data Address") @@
    (3 :> "Illegal Data Value") @@ (4 :> "Slave Device Failure") @@
    (5 :> "Acknowledge") @@ (6 :> "Slave Device Busy") @@
    (8 :> "Memory Parity Error") @@ (10 :> "Gateway Path Unavailable")
exceptions ==
    (1 :> "Illegal Function") @@ (2 :> "Illegal Data Address") @@
    (3 :> "Illegal Data Value") @@ (4 :> "Slave Device Failure") @@
    (5 :> "Acknowledge") @@ (6 :> "Slave Device Busy") @@
    (8 :> "Memory Parity Error") @@ (10 :> "Gateway Path Unavailable") @@
    (11 :> "Gateway Target Failed")

UnknownException(code) == "Unknown Exception (" \o ToString(code) \o ")"

exception_name(r) ==
    IF r.exception_code = NoneInt THEN "Normal Response"
    ELSE IF r.exception_code \in DOMAIN exceptions
         THEN exceptions[r.exception_code]
         ELSE UnknownException(r.exception_code)

(* ----------------------------------------------------------- statistics *)
InitStats ==
    [requests_sent |-> 0, responses_received |-> 0, timeouts |-> 0,
     crc_errors |-> 0, exceptions |-> 0]

(* ------------------------------------------------------ _parse_response *)
\* line 444: if len(data) < 5
TooShort_lt4(data) == Len(data) < 4
TooShort(data) == Len(data) < 5

\* lines 452-456: received_crc != calculated_crc
CrcMismatch(data) ==
    UnpackLE16(Last2(data)) # calculate_crc(DropLast2(data))

\* lines 457-463: the CRC-error response
CrcErrorResponse_with_data(data) ==
    ModbusResponse(data[1], data[2], SubSeq(data, 3, Len(data) - 2),
                   NoneInt, FALSE, TRUE, data)
CrcErrorResponse(data) ==
    ModbusResponse(data[1], data[2], NoneBytes, NoneInt, FALSE, TRUE, data)

\* line 457: self.stats['crc_errors'] += 1
CountCrcError_as_timeout(st) == [st EXCEPT !.timeouts = @ + 1]
CountCrcError(st) == [st EXCEPT !.crc_errors = @ + 1]

\* lines 468-476: the exception response
ExceptionResponse_unmasked(data) ==
    ModbusResponse(data[1], data[2], NoneBytes,
                   IF Len(data) > 2 THEN data[3] ELSE NoneInt,
                   FALSE, FALSE, data)
ExceptionResponse(data) ==
    ModbusResponse(data[1], And7F(data[2]), NoneBytes,
                   IF Len(data) > 2 THEN data[3] ELSE NoneInt,
                   FALSE, FALSE, data)

\* lines 479-485: the normal response
NormalResponse(data) ==
    ModbusResponse(data[1], data[2],
                   IF Len(data) > 4 THEN SubSeq(data, 3, Len(data) - 2)
                   ELSE << >>,
                   NoneInt, FALSE, FALSE, data)

\* the response returned and the counters after the call
parse_response(data, st) ==
    IF TooShort(data) THEN [resp |-> TimeoutResponse, stats |-> st]
    ELSE IF CrcMismatch(data)
         THEN [resp |-> CrcErrorResponse(data), stats |-> CountCrcError(st)]
    ELSE LET st1 == [st EXCEPT !.responses_received = @ + 1]
         IN IF And80(data[2]) # 0
            THEN [resp |-> ExceptionResponse(data),
                  stats |-> [st1 EXCEPT !.exceptions = @ + 1]]
            ELSE [resp |-> NormalResponse(data), stats |-> st1]

(* ---------------------------------------------------- _is_complete_frame *)
is_complete_frame_without_crc(buffer) ==
    IF Len(buffer) < 5 THEN FALSE
    ELSE IF And80(buffer[2]) # 0 THEN Len(buffer) >= 5
    ELSE IF buffer[2] \in {3, 4} /\ Len(buffer) >= 3
         THEN Len(buffer) >= 3 + buffer[3]
    ELSE IF buffer[2] \in {1, 2} /\ Len(buffer) >= 3
         THEN Len(buffer) >= 5 + buffer[3]
    ELSE IF buffer[2] \in {5, 6, 15, 16} THEN Len(buffer) >= 8
    ELSE Len(buffer) >= 5
is_complete_frame(buffer) ==
    IF Len(buffer) < 5 THEN FALSE
    ELSE IF And80(buffer[2]) # 0 THEN Len(buffer) >= 5
    ELSE IF buffer[2] \in {3, 4} /\ Len(buffer) >= 3
         THEN Len(buffer) >= 5 + buffer[3]
    ELSE IF buffer[2] \in {1, 2} /\ Len(buffer) >= 3
         THEN Len(buffer) >= 5 + buffer[3]
    ELSE IF buffer[2] \in {5, 6, 15, 16} THEN Len(buffer) >= 8
    ELSE Len(buffer) >= 5

(* ------------------------------------------------------- request frames *)
READ_HOLDING_REGISTERS == 3
READ_INPUT_REGISTERS == 4
WRITE_SINGLE_REGISTER == 6
WRITE_MULTIPLE_REGISTERS == 16

\* frame = struct.pack('BB', slave_id, fc) + request_data; frame += crc
BuildFrame_crc_high_byte_first(slave_id, fc, request_data) ==
    LET frame == << slave_id, fc >> \o request_data
    IN frame \o PackBE16(calculate_crc(frame))
BuildFrame(slave_id, fc, request_data) ==
    LET frame == << slave_id, fc >> \o request_data
    IN frame \o PackLE16(calculate_crc(frame))

RECURSIVE PackRegisters(_)
PackRegisters(values) ==
    IF values = << >> THEN << >>
    ELSE PackBE16(Head(values)) \o PackRegisters(Tail(values))

ReadRequest(slave_id, fc, start_address, count) ==
    BuildFrame(slave_id, fc, PackBE16(start_address) \o PackBE16(count))

WriteSingleRequest(slave_id, address, value) ==
    BuildFrame(slave_id, WRITE_SINGLE_REGISTER,
               PackBE16(address) \o PackBE16(value))

WriteMultipleRequest(slave_id, start_address, values) ==
    BuildFrame(slave_id, WRITE_MULTIPLE_REGISTERS,
               PackBE16(start_address) \o PackBE16(Len(values))
                 \o << Len(values) * 2 >> \o PackRegisters(values))

ProbeRequest(slave_id, test_address) ==
    BuildFrame(slave_id, READ_HOLDING_REGISTERS,
               PackBE16(test_address) \o PackBE16(1))

(* ------------------------------------------- results of the operations *)
Result(value, error) == [value |-> value, error |-> error]

\* for i in range(0, len(register_data), 2): if i + 1 < len(register_data)
RECURSIVE DecodeRegisters(_, _)
DecodeRegisters(bytes, i) ==
    IF i >= Len(bytes) THEN << >>
    ELSE IF i + 1 < Len(bytes)
         THEN << UnpackBE16(SubSeq(bytes, i + 1, i + 2)) >>
                \o DecodeRegisters(bytes, i + 2)
         ELSE DecodeRegisters(bytes, i + 2)

\* _read_registers after _send_frame has returned response
read_registers_result_no_length_check(response) ==
    IF response.timeout THEN Result(NoneBytes, "Request timeout")
    ELSE IF response.crc_error THEN Result(NoneBytes, "CRC error in response")
    ELSE IF is_exception(response)
         THEN Result(NoneBytes,
                     "Modbus exception: " \o exception_name(response))
    ELSE IF response.data = NoneBytes \/ Len(response.data) < 1
         THEN Result(NoneBytes, "Invalid response data")
    ELSE Result(DecodeRegisters(Tail(response.data), 0), NoneStr)
read_registers_result(response) ==
    IF response.timeout THEN Result(NoneBytes, "Request timeout")
    ELSE IF response.crc_error THEN Result(NoneBytes, "CRC error in response")
    ELSE IF is_exception(response)
         THEN Result(NoneBytes,
                     "Modbus exception: " \o exception_name(response))
    ELSE IF response.data = NoneBytes \/ Len(response.data) < 1
         THEN Result(NoneBytes, "Invalid response data")
    ELSE LET byte_count == response.data[1]
             register_data ==
                 SubSeq(response.data, 2,
                        IF 1 + byte_count < Len(response.data)
                        THEN 1 + byte_count ELSE Len(response.data))
         IN IF Len(register_data) # byte_count
            THEN Result(NoneBytes, "Incomplete register data")
            ELSE Result(DecodeRegisters(register_data, 0), NoneStr)

\* write_single_register / write_multiple_registers after _send_frame
write_result(response) ==
    IF response.timeout THEN Result(FALSE, "Request timeout")
    ELSE IF response.crc_error THEN Result(FALSE, "CRC error in response")
    ELSE IF is_exception(response)
         THEN Result(FALSE, "Modbus exception: " \o exception_name(response))
    ELSE Result(TRUE, NoneStr)

(* ================================================================ state *)
Threads == {"t1", "t2"}
NoThread == "none"

\* SerialConfig values (identified by their baud rate); None
Configs == {9600, 19200}
NoConfig == 0

VARIABLES
    config,             \* self.config: a SerialConfig or NoConfig
    serial_connection,  \* self.serial_connection: "None", "open", "closed"
    is_connected,       \* self.is_connected
    lock,               \* holder of self._lock, or NoThread
    stats,              \* self.stats
    tx,                 \* request written to the port and not yet answered
    line,               \* bytes of the answer still travelling to the port
    rx,                 \* the port's input buffer (in_waiting bytes)
    pc,                 \* per thread: position in the running operation
    op,                 \* per thread: operation running or last run
    frame,              \* per thread: request frame of _send_frame
    buffer,             \* per thread: buffer of _read_response, then its result
    resp,               \* per thread: ModbusResponse returned by _send_frame
    ret,                \* per thread: value returned by the operation
    raised,             \* per thread: the operation raised to its caller
    call,               \* the last call of a stateless function and its result
    scan,               \* per thread: the locals of its scan_slaves call
    events,             \* progress callbacks, probes and responses of a scan
    stop_scan,          \* ModbusDiscoveryScanner.stop_scan
    current_baudrate,   \* ModbusDiscoveryScanner.current_baudrate
    baud_rates,         \* run_scan: the baud rates not yet scanned
    all_devices,        \* run_scan: (slave id, baud rate, exception name)
    monitoring,         \* RS485PassiveMonitor.monitoring
    worker,             \* per monitor thread: position, frames, buffer
    slave_ids,          \* RS485PassiveMonitor.slave_ids
    slave_stats,        \* RS485PassiveMonitor.slave_stats, per key
    wave_stats,         \* RS485PassiveMonitor.wave_stats, per key
    detected_protocols, \* RS485PassiveMonitor.detected_protocols
    data_queue,         \* RS485PassiveMonitor.data_queue: the display events
    now,                \* the last reading of the clock (datetime.now()), ms
    traffic             \* frames the bus has carried past the monitor

master == << config, serial_connection, is_connected, lock, stats >>
bus == << tx, line, rx >>
locals == << pc, op, frame, buffer, resp, ret, raised >>
\* the state outside the Master's connection and request cycle
scanvars == << scan, events >>
discvars == << stop_scan, current_baudrate, baud_rates, all_devices >>
statvars == << slave_ids, slave_stats, wave_stats, detected_protocols,
              data_queue, now >>
monvars == << monitoring, worker, traffic, statvars >>
nocall == << scanvars, discvars, monvars >>
aux == << call, nocall >>
vars == << config, serial_connection, is_connected, lock, stats,
           tx, line, rx, pc, op, frame, buffer, resp, ret, raised, aux >>

\* no (value, error) pair returned (yet)
NotReturned == "not returned"
NoRet == Result(NoneBytes, NotReturned)
NoResp == ModbusResponse(NoneInt, NoneInt, NoneBytes, NoneInt, FALSE, FALSE,
                         NoneBytes)

\* scan_slaves has not been called; i = 0 while it is not running, and the
\* other fields then keep what its last call left
NoScan == [slave_range |-> << >>, progress_callback |-> FALSE, i |-> 0,
           found_devices |-> << >>, found_ids |-> {}]

\* a defaultdict without keys; no protocol detected
NoKeys == [id \in {} |-> 0]
NoProtocols == [modbus_rtu |-> FALSE, modbus_ascii |-> FALSE, custom |-> FALSE]

\* the monitor threads that can exist at once, and one that does not run
Workers == {"w1", "w2"}
NoWorker == [pc |-> "none", frames |-> << >>, buffer |-> << >>]

\* no stateless function has been called
NoCall == [fn |-> "none", arg |-> << >>, result |-> << >>]

RequestOps == {"read_holding_registers", "read_input_registers",
               "write_single_register", "write_multiple_registers",
               "probe_device"}

\* the state that no call of connect or disconnect has changed yet, but for
\* the slave_ids the monitor is created with
InitExceptConnection ==
    /\ lock = NoThread
    /\ tx = << >>
    /\ line = << >>
    /\ rx = << >>
    /\ pc = [t \in Threads |-> "idle"]
    /\ frame = [t \in Threads |-> << >>]
    /\ buffer = [t \in Threads |-> << >>]
    /\ resp = [t \in Threads |-> NoResp]
    /\ raised = [t \in Threads |-> FALSE]
    /\ call = NoCall
    /\ scan = [t \in Threads |-> NoScan]
    /\ events = << >>
    /\ stop_scan = FALSE
    /\ current_baudrate = NoConfig
    /\ baud_rates = << >>
    /\ all_devices = << >>
    /\ monitoring = FALSE
    /\ worker = [w \in Workers |-> NoWorker]
    /\ slave_stats = NoKeys
    /\ wave_stats = NoKeys
    /\ detected_protocols = NoProtocols
    /\ data_queue = << >>
    /\ now = 0
    /\ traffic = 0

\* ModbusMaster.__init__ with config=None; no thread has called anything
InitExceptStats ==
    /\ config = NoConfig
    /\ serial_connection = "None"
    /\ is_connected = FALSE
    /\ op = [t \in Threads |-> "none"]
    /\ ret = [t \in Threads |-> NoRet]
    /\ slave_ids = {}
    /\ InitExceptConnection

Init == stats = InitStats /\ InitExceptStats

(* ===================================================== connect/disconnect *)
\* connect(config): lines 179-183, before the lock is taken
CallConnect(t, cfg) ==
    /\ pc[t] = "idle"
    /\ op' = [op EXCEPT ![t] = "connect"]
    /\ config' = IF cfg # NoConfig THEN cfg ELSE config
    /\ IF config' = NoConfig
       THEN /\ raised' = [raised EXCEPT ![t] = TRUE]
            /\ pc' = pc
       ELSE /\ raised' = [raised EXCEPT ![t] = FALSE]
            /\ pc' = [pc EXCEPT ![t] = "c_lock"]
    /\ frame' = [frame EXCEPT ![t] = << >>]
    /\ buffer' = [buffer EXCEPT ![t] = << >>]
    /\ resp' = [resp EXCEPT ![t] = NoResp]
    /\ ret' = [ret EXCEPT ![t] = NoRet]
    /\ UNCHANGED << serial_connection, is_connected, lock, stats, bus >>
    /\ UNCHANGED aux

\* with self._lock:
Acquire_unguarded(t, from, to) ==
    /\ pc[t] = from
    /\ lock' = t
    /\ pc' = [pc EXCEPT ![t] = to]
Acquire(t, from, to) ==
    /\ pc[t] = from
    /\ lock = NoThread
    /\ lock' = t
    /\ pc' = [pc EXCEPT ![t] = to]

ConnectLock(t) ==
    /\ Acquire(t, "c_lock", "c_close")
    /\ UNCHANGED << config, serial_connection, is_connected, stats, bus,
                    op, frame, buffer, resp, ret, raised >>
    /\ UNCHANGED aux

\* close the existing connection if open (lines 188-190)
ConnectClose(t) ==
    /\ pc[t] = "c_close"
    /\ IF serial_connection = "open"
       THEN serial_connection' = "closed" /\ rx' = << >>
       ELSE UNCHANGED << serial_connection, rx >>
    /\ pc' = [pc EXCEPT ![t] = "c_open"]
    /\ UNCHANGED << config, is_connected, lock, stats, tx, line,
                    op, frame, buffer, resp, ret, raised >>
    /\ UNCHANGED aux

\* serial.Serial(...), reset buffers, is_connected = True (lines 193-220);
\* outcome: "ok", "open_fails" (Serial() raises), "reset_fails"
ConnectOpen_resetting_stats(t, outcome) ==
    /\ pc[t] = "c_open"
    /\ serial_connection' =
           IF outcome = "open_fails" THEN serial_connection ELSE "open"
    /\ rx' = IF outcome = "open_fails" THEN rx ELSE << >>
    /\ is_connected' = (outcome = "ok")
    /\ ret' = [ret EXCEPT ![t] = Result(outcome = "ok", NoneStr)]
    /\ lock' = NoThread
    /\ pc' = [pc EXCEPT ![t] = "idle"]
    /\ stats' = InitStats
    /\ UNCHANGED << config, tx, line, op, frame, buffer, resp, raised >>
    /\ UNCHANGED aux
ConnectOpen(t, outcome) ==
    /\ pc[t] = "c_open"
    /\ serial_connection' =
           IF outcome = "open_fails" THEN serial_connection ELSE "open"
    /\ rx' = IF outcome = "open_fails" THEN rx ELSE << >>
    /\ is_connected' = (outcome = "ok")
    /\ ret' = [ret EXCEPT ![t] = Result(outcome = "ok", NoneStr)]
    /\ lock' = NoThread
    /\ pc' = [pc EXCEPT ![t] = "idle"]
    /\ UNCHANGED << config, stats, tx, line, op, frame, buffer, resp,
                    raised >>
    /\ UNCHANGED aux

CallDisconnect(t) ==
    /\ pc[t] = "idle"
    /\ op' = [op EXCEPT ![t] = "disconnect"]
    /\ pc' = [pc EXCEPT ![t] = "d_lock"]
    /\ frame' = [frame EXCEPT ![t] = << >>]
    /\ buffer' = [buffer EXCEPT ![t] = << >>]
    /\ resp' = [resp EXCEPT ![t] = NoResp]
    /\ ret' = [ret EXCEPT ![t] = NoRet]
    /\ raised' = [raised EXCEPT ![t] = FALSE]
    /\ UNCHANGED << master, bus >>
    /\ UNCHANGED aux

DisconnectLock(t) ==
    /\ Acquire(t, "d_lock", "d_close")
    /\ UNCHANGED << config, serial_connection, is_connected, stats, bus,
                    op, frame, buffer, resp, ret, raised >>
    /\ UNCHANGED aux

\* lines 226-229
DisconnectClose(t) ==
    /\ pc[t] = "d_close"
    /\ IF serial_connection = "open"
       THEN serial_connection' = "closed" /\ rx' = << >>
       ELSE UNCHANGED << serial_connection, rx >>
    /\ is_connected' = FALSE
    /\ lock' = NoThread
    /\ pc' = [pc EXCEPT ![t] = "idle"]
    /\ UNCHANGED << config, stats, tx, line, op, frame, buffer, resp,
                    ret, raised >>
    /\ UNCHANGED aux

(* ========================================================== the device *)
\* bit n of the frame (bit n % 8 of byte n \div 8) inverted; n = -1: none
FlipBit(f, n) ==
    IF n < 0 THEN f
    ELSE [j \in 1..Len(f) |->
            IF j = (n \div 8) + 1 THEN ToggleBit(f[j], n % 8) ELSE f[j]]

\* a frame as a device builds it: body followed by its CRC, low byte first
WithCrc(body) == body \o PackLE16(calculate_crc(body))

\* the device answers the outstanding request with frame f, bit n of which
\* is inverted on the line; the first k bytes reach the port at once
DeviceRespond(f, n, k) ==
    /\ tx # << >>
    /\ line = << >>
    /\ n < 8 * Len(f)
    /\ k \in 1..Len(f)
    /\ tx' = << >>
    /\ line' = SubSeq(FlipBit(f, n), k + 1, Len(f))
    /\ rx' = IF serial_connection = "open"
             THEN rx \o SubSeq(FlipBit(f, n), 1, k) ELSE rx
    /\ UNCHANGED << master, locals >>
    /\ UNCHANGED aux

\* the rest of the answer reaches the port (lost if it is not open)
Deliver ==
    /\ line # << >>
    /\ line' = << >>
    /\ rx' = IF serial_connection = "open" THEN rx \o line ELSE rx
    /\ UNCHANGED << tx, master, locals >>
    /\ UNCHANGED aux

(* ========================================================== _send_frame *)
OpResult(o, r) ==
    IF o \in {"read_holding_registers", "read_input_registers"}
    THEN read_registers_result(r)
    ELSE IF o \in {"write_single_register", "write_multiple_registers"}
    THEN write_result(r)
    ELSE NoRet

\* a request operation is entered: the frame is built (lines 530-534 etc.)
BeginRequest(t, o, f) ==
    /\ pc[t] = "idle"
    /\ stats.requests_sent < MaxRequests
    /\ stats.timeouts < MaxRequests
    /\ op' = [op EXCEPT ![t] = o]
    /\ frame' = [frame EXCEPT ![t] = f]
    /\ buffer' = [buffer EXCEPT ![t] = << >>]
    /\ resp' = [resp EXCEPT ![t] = NoResp]
    /\ ret' = [ret EXCEPT ![t] = NoRet]
    /\ raised' = [raised EXCEPT ![t] = FALSE]
    /\ pc' = [pc EXCEPT ![t] = "sf_check"]
    /\ UNCHANGED << master, bus >>

\* a request operation is called by the user of the Master
StartRequest(t, o, f) ==
    /\ BeginRequest(t, o, f)
    /\ UNCHANGED aux

CallRead(t, o, slave_id, start_address, count) ==
    StartRequest(t, o,
        ReadRequest(slave_id,
                    IF o = "read_holding_registers"
                    THEN READ_HOLDING_REGISTERS ELSE READ_INPUT_REGISTERS,
                    start_address, count))

CallWriteSingle(t, slave_id, address, value) ==
    StartRequest(t, "write_single_register",
                 WriteSingleRequest(slave_id, address, value))

CallWriteMultiple(t, slave_id, start_address, values) ==
    StartRequest(t, "write_multiple_registers",
                 WriteMultipleRequest(slave_id, start_address, values))

CallProbe(t, slave_id) ==
    StartRequest(t, "probe_device", ProbeRequest(slave_id, 65535))

\* _send_frame returns r; the operation maps it to its own return value
Return(t, r) ==
    /\ resp' = [resp EXCEPT ![t] = r]
    /\ ret' = [ret EXCEPT ![t] = OpResult(op[t], r)]
    /\ pc' = [pc EXCEPT ![t] =
                 IF scan[t].i > 0 THEN "scan_record" ELSE "idle"]

\* line 335: if not self.is_connected or not self.serial_connection
SendCheck(t) ==
    /\ pc[t] = "sf_check"
    /\ IF ~is_connected \/ serial_connection = "None"
       THEN Return(t, TimeoutResponse)
       ELSE /\ pc' = [pc EXCEPT ![t] = "sf_lock"]
            /\ UNCHANGED << resp, ret >>
    /\ UNCHANGED << master, bus, op, frame, buffer, raised >>
    /\ UNCHANGED aux

SendLock(t) ==
    /\ Acquire(t, "sf_lock", "sf_reset")
    /\ UNCHANGED << config, serial_connection, is_connected, stats, bus,
                    op, frame, buffer, resp, ret, raised >>
    /\ UNCHANGED aux

\* line 341: reset_input_buffer()
SendReset(t) ==
    /\ pc[t] = "sf_reset"
    /\ serial_connection = "open"
    /\ rx' = << >>
    /\ pc' = [pc EXCEPT ![t] = "sf_write"]
    /\ UNCHANGED << master, tx, line, op, frame, buffer, resp, ret,
                    raised >>
    /\ UNCHANGED aux

\* lines 344-346: write(frame), flush(), requests_sent += 1
SendWrite(t) ==
    /\ pc[t] = "sf_write"
    /\ serial_connection = "open"
    /\ tx' = frame[t]
    /\ stats' = [stats EXCEPT !.requests_sent = @ + 1]
    /\ pc' = [pc EXCEPT ![t] = "rr_loop"]
    /\ UNCHANGED << config, serial_connection, is_connected, lock, line, rx,
                    op, frame, buffer, resp, ret, raised >>
    /\ UNCHANGED aux

\* lines 351-356 with a lock that is not released when the with block ends
Conclude_keeping_lock(t, buf) ==
    \E p \in {parse_response(buf, stats)} :
       /\ buffer' = [buffer EXCEPT ![t] = buf]
       /\ lock' = lock
       /\ IF buf = << >>
          THEN /\ stats' = [stats EXCEPT !.timeouts = @ + 1]
               /\ Return(t, TimeoutResponse)
          ELSE /\ stats' = p.stats
               /\ Return(t, p.resp)

\* lines 351-356 after _read_response has returned buf; the with block ends
Conclude(t, buf) ==
    \E p \in {parse_response(buf, stats)} :
       /\ buffer' = [buffer EXCEPT ![t] = buf]
       /\ lock' = NoThread
       /\ IF buf = << >>
          THEN /\ stats' = [stats EXCEPT !.timeouts = @ + 1]
               /\ Return(t, TimeoutResponse)
          ELSE /\ stats' = p.stats
               /\ Return(t, p.resp)

\* _read_response, one turn of the loop with in_waiting > 0 (lines 379-391);
\* gap: more than frame_timeout has passed since the last byte
ReadChunk(t, gap) ==
    /\ pc[t] = "rr_loop"
    /\ serial_connection = "open"
    /\ rx # << >>
    /\ rx' = << >>
    /\ IF buffer[t] # << >> /\ gap
       THEN Conclude(t, buffer[t])
       ELSE LET b == buffer[t] \o rx
            IN IF Len(b) >= 5 /\ is_complete_frame(b)
               THEN Conclude(t, b)
               ELSE /\ buffer' = [buffer EXCEPT ![t] = b]
                    /\ UNCHANGED << lock, stats, resp, ret, pc >>
    /\ UNCHANGED << config, serial_connection, is_connected, tx, line,
                    op, frame, raised >>
    /\ UNCHANGED aux

\* _read_response leaves the loop with nothing waiting: the overall timeout
\* has passed (line 378) or the frame gap has (lines 394-395)
ReadBreak(t) ==
    /\ pc[t] = "rr_loop"
    /\ Conclude(t, buffer[t])
    /\ UNCHANGED << config, serial_connection, is_connected, bus,
                    op, frame, raised >>
    /\ UNCHANGED aux

\* the transport raises inside the with block (reset, write, flush,
\* in_waiting, read); the buffer of _read_response is lost, the lock is
\* released and line 358 catches
SendRaise_uncaught(t) ==
    /\ pc[t] \in {"sf_reset", "sf_write", "rr_loop"}
    /\ lock' = NoThread
    /\ pc' = [pc EXCEPT ![t] = "idle"]
    /\ raised' = [raised EXCEPT ![t] = TRUE]
    /\ buffer' = [buffer EXCEPT ![t] = << >>]
    /\ UNCHANGED << config, serial_connection, is_connected, stats, bus,
                    op, frame, resp, ret >>
    /\ UNCHANGED aux
SendRaise(t) ==
    /\ pc[t] \in {"sf_reset", "sf_write", "rr_loop"}
    /\ lock' = NoThread
    /\ pc' = [pc EXCEPT ![t] = "sf_except"]
    /\ buffer' = [buffer EXCEPT ![t] = << >>]
    /\ UNCHANGED << config, serial_connection, is_connected, stats, bus,
                    op, frame, resp, ret, raised >>
    /\ UNCHANGED aux

\* lines 359-361
SendExcept(t) ==
    /\ pc[t] = "sf_except"
    /\ stats' = [stats EXCEPT !.timeouts = @ + 1]
    /\ Return(t, TimeoutResponse)
    /\ UNCHANGED << config, serial_connection, is_connected, lock, bus,
                    op, frame, buffer, raised >>
    /\ UNCHANGED aux

(* ============================================ statistics and monitoring *)
\* a non-negative fraction n/d in lowest terms: the value of a Python float
\* quotient, without its rounding
RECURSIVE GCD(_, _)
GCD(a, b) == IF b = 0 THEN a ELSE GCD(b, a % b)

Ratio(n, d) == [num |-> n \div GCD(n, d), den |-> d \div GCD(n, d)]

\* q * k
RatioTimes(q, k) == Ratio(q.num * k, q.den)

\* lines 725-732: the counters, success_rate and error_rate
get_statistics_without_crc_errors(st) ==
    LET total_requests == st.requests_sent
    IN [requests_sent |-> st.requests_sent,
        responses_received |-> st.responses_received,
        timeouts |-> st.timeouts,
        crc_errors |-> st.crc_errors,
        exceptions |-> st.exceptions,
        success_rate |->
            IF total_requests > 0
            THEN RatioTimes(Ratio(st.responses_received, total_requests), 100)
            ELSE Ratio(0, 1),
        error_rate |->
            IF total_requests > 0
            THEN RatioTimes(Ratio(st.timeouts, total_requests), 100)
            ELSE Ratio(0, 1)]
get_statistics(st) ==
    LET total_requests == st.requests_sent
    IN [requests_sent |-> st.requests_sent,
        responses_received |-> st.responses_received,
        timeouts |-> st.timeouts,
        crc_errors |-> st.crc_errors,
        exceptions |-> st.exceptions,
        success_rate |->
            IF total_requests > 0
            THEN RatioTimes(Ratio(st.responses_received, total_requests), 100)
            ELSE Ratio(0, 1),
        error_rate |->
            IF total_requests > 0
            THEN RatioTimes(Ratio(st.timeouts + st.crc_errors, total_requests),
                            100)
            ELSE Ratio(0, 1)]

\* get_statistics() is called: the dictionary it returns
GetStatistics ==
    /\ call' = [fn |-> "get_statistics", arg |-> stats,
                result |-> get_statistics(stats)]
    /\ UNCHANGED << master, bus, locals, nocall >>

\* reset_statistics(): line 736
reset_statistics(st) ==
    [requests_sent |-> 0, responses_received |-> 0, timeouts |-> 0,
     crc_errors |-> 0, exceptions |-> 0]

ResetStatistics ==
    /\ stats' = reset_statistics(stats)
    /\ UNCHANGED << config, serial_connection, is_connected, lock, bus,
                    locals, aux >>

(* ============================================================ scan_slaves *)
\* update_config(baudrate=b): lines 747-753; no lock is taken
UpdateConfig(t, b) ==
    /\ pc[t] = "idle"
    /\ config' = b
    /\ UNCHANGED << serial_connection, is_connected, lock, stats, bus,
                    locals, aux >>

\* range(first, last + 1)
Range(first, last) == [j \in 1..(last - first + 1) |-> first + j - 1]

Event(kind, slave_id, total, response) ==
    [kind |-> kind, slave_id |-> slave_id, total |-> total,
     response |-> response]

\* scan_slaves(slave_range, progress_callback) is called: lines 698-699
CallScan(t, slave_range, progress_callback) ==
    /\ pc[t] = "idle"
    /\ stats.requests_sent < MaxRequests
    /\ stats.timeouts < MaxRequests
    /\ op' = [op EXCEPT ![t] = "scan_slaves"]
    /\ scan' = [scan EXCEPT ![t] =
                   [slave_range |-> slave_range,
                    progress_callback |-> progress_callback, i |-> 1,
                    found_devices |-> << >>, found_ids |-> {}]]
    /\ events' = << >>
    /\ frame' = [frame EXCEPT ![t] = << >>]
    /\ buffer' = [buffer EXCEPT ![t] = << >>]
    /\ resp' = [resp EXCEPT ![t] = NoResp]
    /\ ret' = [ret EXCEPT ![t] = NoRet]
    /\ raised' = [raised EXCEPT ![t] = FALSE]
    /\ pc' = [pc EXCEPT ![t] = "scan_loop"]
    /\ UNCHANGED << master, bus, call,
                    discvars, monvars >>

\* lines 701-705: the next slave ID; the callback, then probe_device
ScanProbe_total_is_index(t) ==
    LET slave_id == scan[t].slave_range[scan[t].i]
    IN /\ pc[t] = "scan_loop"
       /\ scan[t].i \in 1..Len(scan[t].slave_range)
       /\ events' = events
             \o (IF scan[t].progress_callback
                 THEN << Event("progress", slave_id, scan[t].i, NoResp) >>
                 ELSE << >>)
             \o << Event("probe", slave_id, 0, NoResp) >>
       /\ frame' = [frame EXCEPT ![t] = ProbeRequest(slave_id, 65535)]
       /\ buffer' = [buffer EXCEPT ![t] = << >>]
       /\ resp' = [resp EXCEPT ![t] = NoResp]
       /\ pc' = [pc EXCEPT ![t] = "sf_check"]
       /\ UNCHANGED << master, bus, op, ret, raised, scan, call,
                    discvars, monvars >>
ScanProbe(t) ==
    LET slave_id == scan[t].slave_range[scan[t].i]
    IN /\ pc[t] = "scan_loop"
       /\ scan[t].i \in 1..Len(scan[t].slave_range)
       /\ events' = events
             \o (IF scan[t].progress_callback
                 THEN << Event("progress", slave_id,
                               Len(scan[t].slave_range), NoResp) >>
                 ELSE << >>)
             \o << Event("probe", slave_id, 0, NoResp) >>
       /\ frame' = [frame EXCEPT ![t] = ProbeRequest(slave_id, 65535)]
       /\ buffer' = [buffer EXCEPT ![t] = << >>]
       /\ resp' = [resp EXCEPT ![t] = NoResp]
       /\ pc' = [pc EXCEPT ![t] = "sf_check"]
       /\ UNCHANGED << master, bus, op, ret, raised, scan, call,
                    discvars, monvars >>

\* lines 707-712 with the test of line 707 given as accept
ScanRecordIf(t, accept) ==
    /\ pc[t] = "scan_record"
    /\ scan' = [scan EXCEPT
                   ![t].i = @ + 1,
                   ![t].found_ids =
                       IF accept THEN @ \cup {resp[t].slave_id} ELSE @,
                   ![t].found_devices =
                       IF accept
                       THEN Append(@, << resp[t].slave_id, resp[t] >>)
                       ELSE @]
    /\ events' = Append(events,
                        Event("response",
                              scan[t].slave_range[scan[t].i], 0, resp[t]))
    /\ pc' = [pc EXCEPT ![t] = "scan_loop"]
    /\ UNCHANGED << master, bus, op, frame, buffer, resp, ret, raised, call,
                    discvars, monvars >>

\* line 707: if response.is_valid and response.slave_id not in found_ids
ScanRecord_skipping_exceptions(t) ==
    ScanRecordIf(t, /\ is_valid(resp[t]) /\ ~is_exception(resp[t])
                    /\ resp[t].slave_id \notin scan[t].found_ids)
ScanRecord_without_found_ids(t) ==
    ScanRecordIf(t, is_valid(resp[t]))
ScanRecord(t) ==
    ScanRecordIf(t, /\ is_valid(resp[t])
                    /\ resp[t].slave_id \notin scan[t].found_ids)

\* line 714: the range is exhausted, found_devices is returned
ScanFinish(t) ==
    /\ pc[t] = "scan_loop"
    /\ scan[t].i > Len(scan[t].slave_range)
    /\ ret' = [ret EXCEPT ![t] = Result(scan[t].found_devices, NoneStr)]
    /\ scan' = [scan EXCEPT ![t].i = 0]
    /\ pc' = [pc EXCEPT ![t] =
                 IF op[t] = "run_scan" THEN "sb_convert" ELSE "idle"]
    /\ UNCHANGED << master, bus, op, frame, buffer, resp, raised, events,
                    call, discvars, monvars >>

(* ================================================= ModbusDiscoveryScanner *)
\* ModbusDiscoveryGUI.run_scan(port, baud_rates, slave_range) starts in its
\* thread: a new scanner is made (Finder lines 522-536)
CallRunScan(t, rates, slave_range) ==
    /\ pc[t] = "idle"
    /\ op[t] = "none"
    /\ config = NoConfig /\ serial_connection = "None" /\ stats = InitStats
    /\ op' = [op EXCEPT ![t] = "run_scan"]
    /\ stop_scan' = FALSE
    /\ current_baudrate' = NoConfig
    /\ baud_rates' = rates
    /\ all_devices' = << >>
    /\ scan' = [scan EXCEPT ![t] = [NoScan EXCEPT !.slave_range = slave_range]]
    /\ pc' = [pc EXCEPT ![t] = "rs_loop"]
    /\ UNCHANGED << master, bus, frame, buffer, resp, ret, raised, events,
                    call, monvars >>

\* ModbusDiscoveryGUI.stop_scan, from the GUI thread (Finder lines 513-514)
StopScan ==
    /\ \E t \in Threads : op[t] = "run_scan"
    /\ ~stop_scan
    /\ stop_scan' = TRUE
    /\ UNCHANGED << master, bus, locals, call, scanvars, current_baudrate,
                    baud_rates, all_devices, monvars >>

\* for baud_rate in baud_rates: if self.scanner.stop_scan: break
\* (Finder lines 538-540); the loop is left
RunScanExit(t) ==
    /\ pc[t] = "rs_loop"
    /\ baud_rates = << >> \/ stop_scan
    /\ pc' = [pc EXCEPT ![t] = "rs_finally"]
    /\ UNCHANGED << master, bus, op, frame, buffer, resp, ret, raised, call,
                    scanvars, discvars, monvars >>

\* the next baud rate is taken (Finder lines 538-547)
RunScanNext(t) ==
    /\ pc[t] = "rs_loop"
    /\ baud_rates # << >> /\ ~stop_scan
    /\ pc' = [pc EXCEPT ![t] = "sb_configure"]
    /\ UNCHANGED << master, bus, op, frame, buffer, resp, ret, raised, call,
                    scanvars, discvars, monvars >>

\* configure_for_baudrate without the test of current_baudrate at line 47
Configure_skipping_when_connected(t, outcome) ==
    LET baudrate == Head(baud_rates)
        already == /\ is_connected
                   /\ config # NoConfig
        ok == already \/ outcome = "ok"
    IN /\ pc[t] = "sb_configure"
       /\ lock = NoThread
       /\ IF already
          THEN UNCHANGED << config, serial_connection, is_connected, rx >>
          ELSE /\ config' = baudrate
               /\ serial_connection' =
                      IF outcome = "open_fails"
                      THEN (IF serial_connection = "open" THEN "closed"
                            ELSE serial_connection)
                      ELSE "open"
               /\ rx' = IF outcome = "open_fails" /\ serial_connection # "open"
                        THEN rx ELSE << >>
               /\ is_connected' = (outcome = "ok")
       /\ current_baudrate' = IF ok THEN baudrate ELSE current_baudrate
       /\ IF ok
          THEN /\ scan' = [scan EXCEPT ![t].i = 1,
                                       ![t].progress_callback = FALSE,
                                       ![t].found_devices = << >>,
                                       ![t].found_ids = {}]
               /\ events' = << >>
               /\ pc' = [pc EXCEPT ![t] = "scan_loop"]
               /\ UNCHANGED baud_rates
          ELSE /\ baud_rates' = Tail(baud_rates)
               /\ pc' = [pc EXCEPT ![t] = "rs_loop"]
               /\ UNCHANGED << scan, events >>
       /\ UNCHANGED << lock, stats, tx, line, op, frame, buffer, resp, ret,
                       raised, call, stop_scan, all_devices, monvars >>

\* scan_slaves_at_baudrate: configure_for_baudrate (Finder lines 45-75, with
\* disconnect and connect of the Master), then scan_slaves is entered or []
\* is returned (Finder lines 82-86); outcome as in ConnectOpen
Configure(t, outcome) ==
    LET baudrate == Head(baud_rates)
        already == /\ current_baudrate = baudrate
                   /\ is_connected
                   /\ config # NoConfig
        ok == already \/ outcome = "ok"
    IN /\ pc[t] = "sb_configure"
       /\ lock = NoThread
       /\ IF already
          THEN UNCHANGED << config, serial_connection, is_connected, rx >>
          ELSE /\ config' = baudrate
               /\ serial_connection' =
                      IF outcome = "open_fails"
                      THEN (IF serial_connection = "open" THEN "closed"
                            ELSE serial_connection)
                      ELSE "open"
               /\ rx' = IF outcome = "open_fails" /\ serial_connection # "open"
                        THEN rx ELSE << >>
               /\ is_connected' = (outcome = "ok")
       /\ current_baudrate' = IF ok THEN baudrate ELSE current_baudrate
       /\ IF ok
          THEN /\ scan' = [scan EXCEPT ![t].i = 1,
                                       ![t].progress_callback = FALSE,
                                       ![t].found_devices = << >>,
                                       ![t].found_ids = {}]
               /\ events' = << >>
               /\ pc' = [pc EXCEPT ![t] = "scan_loop"]
               /\ UNCHANGED baud_rates
          ELSE /\ baud_rates' = Tail(baud_rates)
               /\ pc' = [pc EXCEPT ![t] = "rs_loop"]
               /\ UNCHANGED << scan, events >>
       /\ UNCHANGED << lock, stats, tx, line, op, frame, buffer, resp, ret,
                       raised, call, stop_scan, all_devices, monvars >>

\* the record run_scan keeps for an entry of scan_slaves at baud rate b
DeviceInfo(entry, b) ==
    [slave_id |-> entry[1], baud_rate |-> b,
     exception_name |-> exception_name(entry[2])]

\* Finder lines 89-93 and 549-568: the first n entries are converted (all of
\* them unless stop_scan is set meanwhile) and added to all_devices
ConvertFirst(t, n) ==
    /\ pc[t] = "sb_convert"
    /\ all_devices' = all_devices
           \o [k \in 1..n |-> DeviceInfo(scan[t].found_devices[k],
                                         Head(baud_rates))]
    /\ baud_rates' = Tail(baud_rates)
    /\ pc' = [pc EXCEPT ![t] = "rs_loop"]
    /\ UNCHANGED << master, bus, op, frame, buffer, resp, ret, raised, call,
                    scanvars, current_baudrate, monvars >>

Convert(t) ==
    /\ ConvertFirst(t, IF stop_scan THEN 0 ELSE Len(scan[t].found_devices))
    /\ UNCHANGED stop_scan

\* stop_scan is set while the entries are converted, after the first n
ConvertStopped(t, n) ==
    /\ ~stop_scan
    /\ n < Len(scan[t].found_devices)
    /\ ConvertFirst(t, n)
    /\ stop_scan' = TRUE

\* finally: self.scanner.disconnect() (Finder lines 593-596)
RunScanFinally(t) ==
    /\ pc[t] = "rs_finally"
    /\ lock = NoThread
    /\ IF serial_connection = "open"
       THEN serial_connection' = "closed" /\ rx' = << >>
       ELSE UNCHANGED << serial_connection, rx >>
    /\ is_connected' = FALSE
    /\ pc' = [pc EXCEPT ![t] = "idle"]
    /\ UNCHANGED << config, lock, stats, tx, line, op, frame, buffer, resp,
                    ret, raised, aux >>

(* ======================================================= passive monitor *)
\* _analyze_frame_validity: the return statement it reaches, named by the
\* flag set there ("rejected": one that returns False)
valid_functions == {1, 2, 3, 4, 5, 6, 15, 16}
exception_functions == {f + 128 : f \in valid_functions}
analyze_frame(f) ==
    IF Len(f) < 4 THEN "rejected"
    ELSE IF ~(1 <= f[1] /\ f[1] <= 247) THEN "rejected"
    ELSE IF /\ f[2] \in valid_functions \cup exception_functions
            /\ Len(f) >= 5
            /\ UnpackLE16(Last2(f)) = calculate_crc(DropLast2(f))
         THEN "modbus_rtu"
    ELSE IF f[1] = 58 THEN "modbus_ascii"
    ELSE IF \E j \in 1..Len(f) : 1 <= f[j] /\ f[j] <= 247 THEN "custom"
    ELSE "rejected"

\* the value _analyze_frame_validity returns
analyze_frame_validity(f) == analyze_frame(f) # "rejected"

\* detected_protocols after _analyze_frame_validity has returned at a, with
\* every other flag cleared
detect_clearing_others(a, dp) == [k \in DOMAIN dp |-> k = a]

\* detected_protocols after _analyze_frame_validity has returned at a: lines
\* 246, 251, 256
detect(a, dp) == [k \in DOMAIN dp |-> dp[k] \/ k = a]

\* max_frames of the worker's _capture_frames call (50 in the source)
MaxFrames == 2
\* frames the bus carries past the monitor before it falls silent
MaxTraffic == 2

\* another master's frame (or a fragment) reaches the open port
BusFrame(f) ==
    /\ serial_connection = "open"
    /\ rx = << >>
    /\ traffic < MaxTraffic
    /\ traffic' = traffic + 1
    /\ rx' = f
    /\ UNCHANGED << master, tx, line, locals, call, scanvars, discvars,
                    monitoring, worker, statvars >>

\* start_monitoring (returns False and changes nothing when not connected):
\* sets the flag and starts a new thread w
StartMonitoring(w) ==
    /\ is_connected
    /\ worker[w].pc \in {"none", "done"}
    /\ monitoring' = TRUE
    /\ worker' = [worker EXCEPT ![w] = [NoWorker EXCEPT !.pc = "m_while"]]
    /\ UNCHANGED << master, bus, locals, call, scanvars, discvars,
                    statvars, traffic >>

\* stop_monitoring
StopMonitoring ==
    /\ monitoring' = FALSE
    /\ UNCHANGED << master, bus, locals, call, scanvars, discvars,
                    worker, statvars, traffic >>

\* a step of thread w that only changes its own locals
WorkerLocal(w, next) ==
    /\ worker' = [worker EXCEPT ![w] = next]
    /\ UNCHANGED << master, bus, locals, call, scanvars, discvars,
                    monitoring, statvars, traffic >>

\* _monitor_thread line 284: the loop test; then _capture_frames begins
MonitorLoop(w) ==
    /\ worker[w].pc = "m_while"
    /\ WorkerLocal(w, IF monitoring /\ is_connected
                      THEN [NoWorker EXCEPT !.pc = "capture"]
                      ELSE [worker[w] EXCEPT !.pc = "done"])

\* _capture_frames: its loop goes on (before the timeout)
CaptureGoesOn(w) ==
    /\ worker[w].pc = "capture"
    /\ Len(worker[w].frames) < MaxFrames
    /\ serial_connection = "open"

\* a buffer that ends a frame is kept when it has 4 bytes or more
Captured(frames, buf) == IF Len(buf) >= 4 THEN Append(frames, buf) ELSE frames

\* lines 181-193: bytes are waiting; gap: the frame gap has passed since
\* the last byte
CaptureChunk(w, gap) ==
    /\ CaptureGoesOn(w)
    /\ rx # << >>
    /\ LET buf == worker[w].buffer
           ends == buf # << >> /\ gap
       IN  worker' = [worker EXCEPT
                ![w].frames = IF ends THEN Captured(@, buf) ELSE @,
                ![w].buffer = (IF ends THEN << >> ELSE buf) \o rx]
    /\ rx' = << >>
    /\ UNCHANGED << master, tx, line, locals, call, scanvars, discvars,
                    monitoring, statvars, traffic >>

\* lines 195-199: nothing is waiting and the frame gap has passed
CaptureGap(w) ==
    /\ CaptureGoesOn(w)
    /\ rx = << >>
    /\ worker[w].buffer # << >>
    /\ WorkerLocal(w, [worker[w] EXCEPT
                          !.frames = Captured(@, worker[w].buffer),
                          !.buffer = << >>])

\* lines 175-178 and 207-211: the loop ends (timeout, max_frames, the port
\* is closed, or an exception), the final buffer is added
CaptureEnd(w) ==
    /\ worker[w].pc = "capture"
    /\ WorkerLocal(w, [pc |-> "m_for",
                       frames |-> Captured(worker[w].frames,
                                           worker[w].buffer),
                       buffer |-> << >>])

\* lines 289-291 without the test of the flag
MonitorFor_ignoring_flag(w) ==
    /\ worker[w].pc = "m_for"
    /\ WorkerLocal(w, [worker[w] EXCEPT
                          !.pc = IF worker[w].frames = << >>
                                 THEN "m_while" ELSE "m_process"])

\* lines 289-291, 294: the next frame of the batch, unless the flag is
\* cleared; after the batch, the pause and the loop test
MonitorFor(w) ==
    /\ worker[w].pc = "m_for"
    /\ WorkerLocal(w, [worker[w] EXCEPT
                          !.pc = IF worker[w].frames = << >> \/ ~monitoring
                                 THEN "m_while" ELSE "m_process"])

\* times are in milliseconds; None for a time, float('inf') for an interval
NoTime == -1
Infinity == 1000000
\* wave_gap_threshold (0.5 s), min_poll_interval (0.010 s), deque(maxlen=100)
wave_gap_threshold == 500
min_poll_interval == 10
maxlen == 100
\* the clock is read up to MaxTime; at most MaxProcessed frames are passed
\* to wave detection
MaxTime == 1000
MaxProcessed == 4

Min(a, b) == IF a <= b THEN a ELSE b
Max(a, b) == IF a >= b THEN a ELSE b
RECURSIVE Sum(_)
Sum(q) == IF q = << >> THEN 0 ELSE Head(q) + Sum(Tail(q))
\* deque.append
Push(q, x) == IF Len(q) >= maxlen THEN Append(Tail(q), x) ELSE Append(q, x)

\* the entries the defaultdicts create: lines 57-64 and 67-77
new_slave_stats ==
    [count |-> 0, last_seen |-> NoTime, intervals |-> << >>,
     avg_rate |-> Ratio(0, 1), min_interval |-> Infinity, max_interval |-> 0]
new_wave_stats ==
    [waves |-> << >>, current_wave_start |-> NoTime, current_wave_msgs |-> 0,
     last_msg_time |-> NoTime, wave_intervals |-> << >>,
     avg_wave_interval |-> Ratio(0, 1), avg_msgs_per_wave |-> Ratio(0, 1),
     min_wave_interval |-> Infinity, max_wave_interval |-> 0]

\* d[key] of a defaultdict d with the given default, and d after d[key] = v
Entry(d, key, default) == IF key \in DOMAIN d THEN d[key] ELSE default
With(d, key, v) ==
    [k \in DOMAIN d \cup {key} |-> IF k = key THEN v ELSE d[k]]

\* sum(w['msg_count'] for w in waves) is taken over these
MsgCounts(waves) == [j \in 1..Len(waves) |-> waves[j].msg_count]

\* lines 384-405 with the interval between the first two waves left out
close_wave_skipping_first_interval(ws) ==
    LET wave_info == [start |-> ws.current_wave_start,
                      end |-> ws.last_msg_time,
                      duration |-> ws.last_msg_time - ws.current_wave_start,
                      msg_count |-> ws.current_wave_msgs]
        waves == Push(ws.waves, wave_info)
        wave_interval == ws.current_wave_start - waves[Len(waves) - 1].start
        more == Len(waves) > 2
        wave_intervals == IF more THEN Push(ws.wave_intervals, wave_interval)
                          ELSE ws.wave_intervals
    IN  [ws EXCEPT
            !.waves = waves,
            !.wave_intervals = wave_intervals,
            !.min_wave_interval = IF more THEN Min(@, wave_interval) ELSE @,
            !.max_wave_interval = IF more THEN Max(@, wave_interval) ELSE @,
            !.avg_wave_interval =
                IF wave_intervals # << >>
                THEN Ratio(Sum(wave_intervals), Len(wave_intervals)) ELSE @,
            !.avg_msgs_per_wave = Ratio(Sum(MsgCounts(waves)), Len(waves))]

\* lines 384-405: the open wave of ws is closed
close_wave(ws) ==
    LET wave_info == [start |-> ws.current_wave_start,
                      end |-> ws.last_msg_time,
                      duration |-> ws.last_msg_time - ws.current_wave_start,
                      msg_count |-> ws.current_wave_msgs]
        waves == Push(ws.waves, wave_info)
        wave_interval == ws.current_wave_start - waves[Len(waves) - 1].start
        more == Len(waves) > 1
        wave_intervals == IF more THEN Push(ws.wave_intervals, wave_interval)
                          ELSE ws.wave_intervals
    IN  [ws EXCEPT
            !.waves = waves,
            !.wave_intervals = wave_intervals,
            !.min_wave_interval = IF more THEN Min(@, wave_interval) ELSE @,
            !.max_wave_interval = IF more THEN Max(@, wave_interval) ELSE @,
            !.avg_wave_interval =
                IF wave_intervals # << >>
                THEN Ratio(Sum(wave_intervals), Len(wave_intervals)) ELSE @,
            !.avg_msgs_per_wave = Ratio(Sum(MsgCounts(waves)), Len(waves))]

\* _update_wave_stats on the entry ws of a slave, with a gap of exactly the
\* threshold taken for a new wave
update_wave_stats_closing_at_threshold(ws, timestamp) ==
    IF ws.last_msg_time # NoTime
    THEN IF timestamp - ws.last_msg_time >= wave_gap_threshold
         THEN [(IF ws.current_wave_start # NoTime THEN close_wave(ws) ELSE ws)
                  EXCEPT !.current_wave_start = timestamp,
                         !.current_wave_msgs = 1,
                         !.last_msg_time = timestamp]
         ELSE [ws EXCEPT !.current_wave_msgs = @ + 1,
                         !.last_msg_time = timestamp]
    ELSE [ws EXCEPT !.current_wave_start = timestamp,
                    !.current_wave_msgs = 1,
                    !.last_msg_time = timestamp]

\* _update_wave_stats with the wave closed at the message that closes it
update_wave_stats_ending_at_close(ws, timestamp) ==
    IF ws.last_msg_time # NoTime
    THEN IF timestamp - ws.last_msg_time > wave_gap_threshold
         THEN [(IF ws.current_wave_start # NoTime
                THEN close_wave([ws EXCEPT !.last_msg_time = timestamp])
                ELSE ws)
                  EXCEPT !.current_wave_start = timestamp,
                         !.current_wave_msgs = 1,
                         !.last_msg_time = timestamp]
         ELSE [ws EXCEPT !.current_wave_msgs = @ + 1,
                         !.last_msg_time = timestamp]
    ELSE [ws EXCEPT !.current_wave_start = timestamp,
                    !.current_wave_msgs = 1,
                    !.last_msg_time = timestamp]

\* _update_wave_stats lines 373-419 on the entry ws of a slave
update_wave_stats(ws, timestamp) ==
    IF ws.last_msg_time # NoTime
    THEN IF timestamp - ws.last_msg_time > wave_gap_threshold
         THEN [(IF ws.current_wave_start # NoTime THEN close_wave(ws) ELSE ws)
                  EXCEPT !.current_wave_start = timestamp,
                         !.current_wave_msgs = 1,
                         !.last_msg_time = timestamp]
         ELSE [ws EXCEPT !.current_wave_msgs = @ + 1,
                         !.last_msg_time = timestamp]
    ELSE [ws EXCEPT !.current_wave_start = timestamp,
                    !.current_wave_msgs = 1,
                    !.last_msg_time = timestamp]

\* the display event put on data_queue: lines 345-351 and 357-363
DisplayEvent(timestamp, f, interval) ==
    [timestamp |-> timestamp, slave_id |-> f[1], frame |-> f,
     length |-> Len(f), interval |-> interval]

\* lines 325-363 without the test of the interval
update_poll_stats_unfiltered(st, q, f, timestamp) ==
    IF st.last_seen # NoTime
    THEN LET interval == timestamp - st.last_seen
             intervals == Push(st.intervals, interval)
         IN  [stats |-> [st EXCEPT
                            !.intervals = intervals,
                            !.min_interval = Min(@, interval),
                            !.max_interval = Max(@, interval),
                            !.avg_rate = Ratio(Sum(intervals), Len(intervals)),
                            !.count = @ + 1,
                            !.last_seen = timestamp],
              queue |-> Append(q, DisplayEvent(timestamp, f, interval))]
    ELSE [stats |-> [st EXCEPT !.count = @ + 1, !.last_seen = timestamp],
          queue |-> Append(q, DisplayEvent(timestamp, f, 0))]

\* lines 325-363 on the entry st of the slave and the queue q
update_poll_stats(st, q, f, timestamp) ==
    IF st.last_seen # NoTime
    THEN LET interval == timestamp - st.last_seen
             intervals == Push(st.intervals, interval)
         IN  IF interval >= min_poll_interval
             THEN [stats |-> [st EXCEPT
                                !.intervals = intervals,
                                !.min_interval = Min(@, interval),
                                !.max_interval = Max(@, interval),
                                !.avg_rate =
                                    Ratio(Sum(intervals), Len(intervals)),
                                !.count = @ + 1,
                                !.last_seen = timestamp],
                   queue |-> Append(q, DisplayEvent(timestamp, f, interval))]
             ELSE [stats |-> st, queue |-> q]
    ELSE [stats |-> [st EXCEPT !.count = @ + 1, !.last_seen = timestamp],
          queue |-> Append(q, DisplayEvent(timestamp, f, 0))]

\* the monitor's statistics as one record
Monitor ==
    [slave_ids |-> slave_ids, slave_stats |-> slave_stats,
     wave_stats |-> wave_stats, detected_protocols |-> detected_protocols,
     data_queue |-> data_queue]

\* lines 316-363 with wave detection moved behind the interval test
record_frame_waves_when_polled(m, f, timestamp) ==
    LET slave_id == f[1]
        st == Entry(m.slave_stats, slave_id, new_slave_stats)
        polled == update_poll_stats(st, m.data_queue, f, timestamp)
    IN  [m EXCEPT
            !.slave_ids = @ \cup {slave_id},
            !.wave_stats =
                With(@, slave_id,
                     IF polled.stats # st
                     THEN update_wave_stats(Entry(@, slave_id, new_wave_stats),
                                            timestamp)
                     ELSE Entry(@, slave_id, new_wave_stats)),
            !.slave_stats = With(@, slave_id, polled.stats),
            !.data_queue = polled.queue]

\* lines 316-363 for an accepted frame f of slave_id
record_frame(m, f, timestamp) ==
    LET slave_id == f[1]
        polled == update_poll_stats(Entry(m.slave_stats, slave_id,
                                          new_slave_stats),
                                    m.data_queue, f, timestamp)
    IN  [m EXCEPT
            !.slave_ids = @ \cup {slave_id},
            !.wave_stats =
                With(@, slave_id,
                     update_wave_stats(Entry(@, slave_id, new_wave_stats),
                                       timestamp)),
            !.slave_stats = With(@, slave_id, polled.stats),
            !.data_queue = polled.queue]

\* _process_frame lines 309-363 on the monitor's statistics m, at the clock
\* reading timestamp
process_frame(m, f, timestamp) ==
    TheOnly({IF /\ a # "rejected"
                /\ m.slave_ids = {} \/ f[1] \in m.slave_ids
             THEN record_frame([m EXCEPT !.detected_protocols = detect(a, @)],
                               f, timestamp)
             ELSE [m EXCEPT !.detected_protocols = detect(a, @)] :
                a \in {analyze_frame(f)}})

\* frames passed to wave detection so far, for a slave and in all
Detected(ws) == Sum(MsgCounts(ws.waves)) + ws.current_wave_msgs
RECURSIVE SumOver(_, _)
SumOver(d, keys) ==
    IF keys = {} THEN 0
    ELSE LET k == CHOOSE k \in keys : TRUE
         IN  Detected(d[k]) + SumOver(d, keys \ {k})
Processed == SumOver(wave_stats, DOMAIN wave_stats)

\* _process_frame(f) runs; the clock has advanced by dt since its last
\* reading
RunProcessFrame(f, dt) ==
    /\ dt = 0 \/ now + dt <= MaxTime
    /\ now' = now + dt
    /\ \E m \in {process_frame(Monitor, f, now + dt)} :
           /\ slave_ids' = m.slave_ids
           /\ slave_stats' = m.slave_stats
           /\ wave_stats' = m.wave_stats
           /\ detected_protocols' = m.detected_protocols
           /\ data_queue' = m.data_queue

\* _monitor_thread line 292: the frame the loop has taken is processed
ProcessFrame(w, dt) ==
    /\ worker[w].pc = "m_process"
    /\ worker' = [worker EXCEPT ![w].frames = Tail(@), ![w].pc = "m_for"]
    /\ RunProcessFrame(Head(worker[w].frames), dt)
    /\ UNCHANGED << master, bus, locals, call, scanvars, discvars,
                    monitoring, traffic >>

\* _process_frame(f) is called directly
CallProcessFrame(f, dt) ==
    /\ Processed < MaxProcessed
    /\ RunProcessFrame(f, dt)
    /\ UNCHANGED << master, bus, locals, call, scanvars, discvars,
                    monitoring, worker, traffic >>

\* _analyze_frame_validity(f) is called directly
CallAnalyzeFrameValidity(f) ==
    /\ detected_protocols' = detect(analyze_frame(f), detected_protocols)
    /\ call' = [fn |-> "_analyze_frame_validity", arg |-> f,
                result |-> analyze_frame_validity(f)]
    /\ UNCHANGED << master, bus, locals, scanvars, discvars, monitoring,
                    worker, traffic, slave_ids, slave_stats, wave_stats,
                    data_queue, now >>

\* the entry of rates for a slave: lines 445-473
SlaveRate(st, ws, current_time) ==
    LET time_since_last == IF st.last_seen # NoTime
                           THEN current_time - st.last_seen ELSE Infinity
        recent_intervals == SelectSeq(st.intervals, LAMBDA i : i > 0)
        some == recent_intervals # << >>
    IN  [rate_hz |-> IF some THEN Ratio(1000 * Len(recent_intervals),
                                        Sum(recent_intervals))
                     ELSE Ratio(0, 1),
         period_ms |-> IF some THEN Ratio(Sum(recent_intervals),
                                          Len(recent_intervals))
                       ELSE Ratio(0, 1),
         message_count |-> st.count,
         status |-> IF time_since_last < 1000 THEN "Active"
                    ELSE IF time_since_last < 3000 THEN "Slowing"
                    ELSE "Idle",
         time_since_last |-> time_since_last,
         current_wave_msgs |-> ws.current_wave_msgs,
         total_waves |-> Len(ws.waves),
         avg_msgs_per_wave |-> ws.avg_msgs_per_wave]

\* a defaultdict after each of the keys has been looked up
LookedUp(d, keys, default) ==
    [k \in DOMAIN d \cup keys |-> Entry(d, k, default)]

\* get_current_rates lines 431-476; the clock has advanced by dt
GetCurrentRates(dt) ==
    /\ now + dt <= MaxTime
    /\ now' = now + dt
    /\ slave_stats' = LookedUp(slave_stats, slave_ids, new_slave_stats)
    /\ wave_stats' = LookedUp(wave_stats, slave_ids, new_wave_stats)
    /\ call' = [fn |-> "get_current_rates", arg |-> << >>,
                result |-> [id \in slave_ids |->
                               SlaveRate(slave_stats'[id], wave_stats'[id],
                                         now + dt)]]
    /\ UNCHANGED << master, bus, locals, scanvars, discvars, monitoring,
                    worker, traffic, slave_ids, detected_protocols,
                    data_queue >>

\* clock advances between two frames of a batch
BatchGaps == {0, 10}

\* the steps thread w takes by itself: the scheduler runs it, and
\* _capture_frames ends at its timeout
WorkerStep(w) ==
    \/ MonitorLoop(w)
    \/ CaptureEnd(w)
    \/ MonitorFor(w)
    \/ \E dt \in BatchGaps : ProcessFrame(w, dt)

(* ================================================= the stateless functions *)
\* _is_complete_frame(b) is called
CallIsCompleteFrame(b) ==
    /\ call' = [fn |-> "_is_complete_frame", arg |-> b,
                result |-> is_complete_frame(b)]
    /\ UNCHANGED << master, bus, locals, nocall >>

\* calculate_crc(data) is called
CallCalculateCrc(data) ==
    /\ call' = [fn |-> "calculate_crc", arg |-> data,
                result |-> calculate_crc(data)]
    /\ UNCHANGED << master, bus, locals, nocall >>

(* ====================================================== specifications *)
SeqsUpTo(S, n) == UNION {[1..k -> S] : k \in 0..n}

\* answers of a device: read responses with any declared byte count and any
\* data up to MaxByteCount bytes, exception responses, a write echo, the
\* two-register answer 0x0001 0x0002, and answers cut short to 1..4 bytes
DataBytes == {1, 255}
ExceptionCodes == 0..12 \cup {255}
ReadBodies ==
    {<< 17, 3, bc >> \o d :
        bc \in 0..MaxByteCount, d \in SeqsUpTo(DataBytes, MaxByteCount)}
ExceptionBodies == {<< 17, 131, c >> : c \in ExceptionCodes}
OtherBodies == {<< 17, 6, 0, 100, 0, 1 >>, << 17, 3, 4, 0, 1, 0, 2 >>}
ShortFrames == {<< 17 >>, << 17, 3 >>, << 17, 3, 2 >>, << 17, 131, 2, 193 >>}
DeviceFrames ==
    {WithCrc(b) : b \in ReadBodies \cup ExceptionBodies \cup OtherBodies}
\* the answers the line may corrupt: those whose byte count matches
NoisyFrames ==
    {WithCrc(b) : b \in {r \in ReadBodies : r[3] = Len(r) - 3}
                          \cup ExceptionBodies \cup OtherBodies}

SmallFrames == {WithCrc(<< 17, 3, 2, 0, 1 >>)}
ChunkLen == 3

\* two threads share one Master; the device sends one frame, in one or two
\* pieces
Next ==
    \/ \E t \in Threads :
        \/ \E cfg \in {9600, NoConfig} : CallConnect(t, cfg)
        \/ ConnectLock(t)
        \/ ConnectClose(t)
        \/ \E outcome \in {"ok", "open_fails", "reset_fails"} :
               ConnectOpen(t, outcome)
        \/ CallDisconnect(t)
        \/ DisconnectLock(t)
        \/ DisconnectClose(t)
        \/ CallRead(t, "read_holding_registers", 17, 100, 2)
        \/ CallProbe(t, 17)
        \/ SendCheck(t)
        \/ SendLock(t)
        \/ SendReset(t)
        \/ SendWrite(t)
        \/ \E gap \in BOOLEAN : ReadChunk(t, gap)
        \/ ReadBreak(t)
        \/ SendRaise(t)
        \/ SendExcept(t)
    \/ \E f \in SmallFrames : \E k \in {ChunkLen, Len(f)} :
           DeviceRespond(f, -1, k)
    \/ Deliver

Spec == Init /\ [][Next]_vars

\* one thread connects and issues requests; the device sends every frame of
\* DeviceFrames, any one bit of a NoisyFrames frame inverted, or a short
\* frame; it answers while the master is reading, in one piece, and the
\* master reads whatever has arrived before it gives up
CodecThread == "t1"

NextCodec ==
    \/ CallConnect(CodecThread, 9600)
    \/ ConnectLock(CodecThread)
    \/ ConnectClose(CodecThread)
    \/ ConnectOpen(CodecThread, "ok")
    \/ CallRead(CodecThread, "read_holding_registers", 17, 100, 2)
    \/ CallWriteSingle(CodecThread, 17, 100, 1)
    \/ CallProbe(CodecThread, 17)
    \/ SendCheck(CodecThread)
    \/ SendLock(CodecThread)
    \/ SendReset(CodecThread)
    \/ SendWrite(CodecThread)
    \/ ReadChunk(CodecThread, FALSE)
    \/ rx = << >> /\ ReadBreak(CodecThread)
    \/ rx = << >> /\ SendRaise(CodecThread)
    \/ SendExcept(CodecThread)
    \/ /\ pc[CodecThread] = "rr_loop"
       /\ \E f \in DeviceFrames \cup ShortFrames :
              DeviceRespond(f, -1, Len(f))
    \/ /\ pc[CodecThread] = "rr_loop"
       /\ \E f \in NoisyFrames : \E n \in 0..(8 * Len(f) - 1) :
              DeviceRespond(f, n, Len(f))

SpecCodec == Init /\ [][NextCodec]_vars

\* one thread issues every request of these sets, connected or not; the
\* device stays silent
FrameThread == "t1"
SlaveIds == {17, 247}
Addresses == {100, 65535}
Counts == {2}
RegisterValues == {258}
RegisterLists == SeqsUpTo({1, 258}, MaxByteCount - 1)

NextFrames ==
    \/ CallConnect(FrameThread, 9600)
    \/ ConnectLock(FrameThread)
    \/ ConnectClose(FrameThread)
    \/ ConnectOpen(FrameThread, "ok")
    \/ \E o \in {"read_holding_registers", "read_input_registers"},
          sid \in SlaveIds, a \in Addresses, c \in Counts :
              CallRead(FrameThread, o, sid, a, c)
    \/ \E sid \in SlaveIds, a \in Addresses, v \in RegisterValues :
              CallWriteSingle(FrameThread, sid, a, v)
    \/ \E sid \in SlaveIds, a \in Addresses, vs \in RegisterLists :
              CallWriteMultiple(FrameThread, sid, a, vs)
    \/ \E sid \in SlaveIds : CallProbe(FrameThread, sid)
    \/ SendCheck(FrameThread)
    \/ SendLock(FrameThread)
    \/ SendReset(FrameThread)
    \/ SendWrite(FrameThread)
    \/ ReadBreak(FrameThread)

SpecFrames == Init /\ [][NextFrames]_vars

\* one thread connects, disconnects, changes the configuration, resets the
\* counters and scans ranges of up to MaxScan slave IDs, with and without a
\* progress callback; a device answers a probe as slave 1 (an exception) or
\* as slave 2 (registers), whatever ID was probed, its answer may arrive
\* with one bit inverted, nothing answers, or the transport raises
MaxScan == 3
ScanThread == "t1"
ScanRanges == {Range(1, MaxScan), Range(2, MaxScan)}
ScanFrames == {WithCrc(<< 1, 131, 2 >>), WithCrc(<< 2, 3, 2, 0, 1 >>)}

NextScan ==
    \/ \E cfg \in Configs : CallConnect(ScanThread, cfg)
    \/ ConnectLock(ScanThread)
    \/ ConnectClose(ScanThread)
    \/ \E outcome \in {"ok", "open_fails"} : ConnectOpen(ScanThread, outcome)
    \/ CallDisconnect(ScanThread)
    \/ DisconnectLock(ScanThread)
    \/ DisconnectClose(ScanThread)
    \/ \E b \in Configs : UpdateConfig(ScanThread, b)
    \/ pc[ScanThread] = "idle" /\ ResetStatistics
    \/ \E r \in ScanRanges, cb \in BOOLEAN : CallScan(ScanThread, r, cb)
    \/ ScanProbe(ScanThread)
    \/ ScanRecord(ScanThread)
    \/ ScanFinish(ScanThread)
    \/ SendCheck(ScanThread)
    \/ SendLock(ScanThread)
    \/ SendReset(ScanThread)
    \/ SendWrite(ScanThread)
    \/ ReadChunk(ScanThread, FALSE)
    \/ rx = << >> /\ ReadBreak(ScanThread)
    \/ rx = << >> /\ SendRaise(ScanThread)
    \/ SendExcept(ScanThread)
    \/ /\ pc[ScanThread] = "rr_loop"
       /\ \E f \in ScanFrames : DeviceRespond(f, -1, Len(f))
    \/ /\ pc[ScanThread] = "rr_loop"
       /\ DeviceRespond(WithCrc(<< 1, 131, 2 >>), 16, 5)

SpecScan == Init /\ [][NextScan]_vars

\* a discovery over two baud rates and the slave IDs 1..MaxScan - 1; the
\* GUI may ask for the scan to stop at any moment
DiscoveryThread == "t1"
DiscoveryRates == << 9600, 19200 >>

NextDiscovery ==
    \/ CallRunScan(DiscoveryThread, DiscoveryRates, Range(1, MaxScan - 1))
    \/ StopScan
    \/ RunScanNext(DiscoveryThread)
    \/ RunScanExit(DiscoveryThread)
    \/ \E outcome \in {"ok", "open_fails"} :
           Configure(DiscoveryThread, outcome)
    \/ ScanProbe(DiscoveryThread)
    \/ ScanRecord(DiscoveryThread)
    \/ ScanFinish(DiscoveryThread)
    \/ Convert(DiscoveryThread)
    \/ \E n \in 0..MaxScan : ConvertStopped(DiscoveryThread, n)
    \/ RunScanFinally(DiscoveryThread)
    \/ SendCheck(DiscoveryThread)
    \/ SendLock(DiscoveryThread)
    \/ SendReset(DiscoveryThread)
    \/ SendWrite(DiscoveryThread)
    \/ ReadChunk(DiscoveryThread, FALSE)
    \/ rx = << >> /\ ReadBreak(DiscoveryThread)
    \/ /\ pc[DiscoveryThread] = "rr_loop"
       /\ \E f \in ScanFrames : DeviceRespond(f, -1, Len(f))

SpecDiscovery == Init /\ [][NextDiscovery]_vars

\* the passive monitor: a thread that opens and closes the port and starts
\* and stops monitoring, the monitor threads, and the bus
MonitorThread == "t1"
MonitorFrames ==
    {WithCrc(<< 17, 3, 2, 0, 1 >>), WithCrc(<< 18, 131, 2 >>), << 17, 3 >>}
ClosingThread == "t2"
\* RS485PassiveMonitor(), then setup_passive_mode has connected at 9600 baud
\* (connect has returned True to MonitorThread)
InitMonitor ==
    /\ config = 9600
    /\ serial_connection = "open"
    /\ is_connected = TRUE
    /\ op = [t \in Threads |-> IF t = MonitorThread THEN "connect" ELSE "none"]
    /\ ret = [t \in Threads |-> IF t = MonitorThread
                                 THEN Result(TRUE, NoneStr) ELSE NoRet]
    /\ stats = InitStats
    /\ slave_ids = {}
    /\ InitExceptConnection

NextMonitor ==
    \/ CallDisconnect(ClosingThread)
    \/ DisconnectLock(ClosingThread)
    \/ DisconnectClose(ClosingThread)
    \/ \E w \in Workers : StartMonitoring(w)
    \/ StopMonitoring
    \/ \E f \in MonitorFrames : BusFrame(f)
    \/ \E w \in Workers : MonitorLoop(w)
    \/ \E w \in Workers, gap \in BOOLEAN : CaptureChunk(w, gap)
    \/ \E w \in Workers : CaptureGap(w)
    \/ \E w \in Workers : CaptureEnd(w)
    \/ \E w \in Workers : MonitorFor(w)
    \/ \E w \in Workers, dt \in BatchGaps : ProcessFrame(w, dt)

\* every started thread keeps being scheduled (each of its steps changes
\* its position)
SpecMonitor ==
    /\ InitMonitor /\ [][NextMonitor]_vars
    /\ \A w \in Workers : WF_worker(WorkerStep(w))

\* one monitor thread captures while up to MaxFrames + 1 frames or fragments
\* pass on the bus, in any arrival pattern
CaptureWorker == "w1"

BusFrameOf(f, most) ==
    /\ serial_connection = "open"
    /\ rx = << >>
    /\ traffic < most
    /\ traffic' = traffic + 1
    /\ rx' = f
    /\ UNCHANGED << master, tx, line, locals, call, scanvars, discvars,
                    monitoring, worker, statvars >>

NextCapture ==
    \/ StartMonitoring(CaptureWorker)
    \/ StopMonitoring
    \/ \E f \in MonitorFrames : BusFrameOf(f, MaxFrames + 1)
    \/ MonitorLoop(CaptureWorker)
    \/ \E gap \in BOOLEAN : CaptureChunk(CaptureWorker, gap)
    \/ CaptureGap(CaptureWorker)
    \/ CaptureEnd(CaptureWorker)
    \/ MonitorFor(CaptureWorker)
    \/ \E dt \in BatchGaps : ProcessFrame(CaptureWorker, dt)

SpecCapture == InitMonitor /\ [][NextCapture]_vars

\* the request cycle under contention: on a Master that the thread which
\* created it has connected, two other threads issue requests; the device answers in one or two pieces or not at all,
\* the read loop ends with a complete frame, a frame gap or the overall
\* timeout, or the transport raises. A thread that can take a step of
\* _send_frame eventually takes one (the overall timeout of _read_response
\* passes whatever the device does), and a thread that finds the lock free
\* again and again eventually acquires it
InitCycle ==
    /\ config = 9600
    /\ serial_connection = "open"
    /\ is_connected = TRUE
    /\ op = [t \in Threads |-> "none"]
    /\ ret = [t \in Threads |-> NoRet]
    /\ stats = InitStats
    /\ slave_ids = {}
    /\ InitExceptConnection
CycleStep(t) ==
    \/ SendCheck(t)
    \/ SendReset(t)
    \/ SendWrite(t)
    \/ \E gap \in BOOLEAN : ReadChunk(t, gap)
    \/ ReadBreak(t)
    \/ SendExcept(t)
NextCycle ==
    \/ \E t \in Threads :
        \/ CallRead(t, "read_holding_registers", 17, 100, 2)
        \/ CallProbe(t, 17)
        \/ SendLock(t)
        \/ CycleStep(t)
        \/ SendRaise(t)
    \/ \E f \in SmallFrames : \E k \in {ChunkLen, Len(f)} :
           DeviceRespond(f, -1, k)
    \/ Deliver
SpecCycle ==
    /\ InitCycle
    /\ [][NextCycle]_vars
    /\ \A t \in Threads : WF_pc(CycleStep(t)) /\ SF_pc(SendLock(t))

(* ================= ModbusConfigurationTool (SlaveID_Baudrate_Updater.py) *)
\* struct.pack('B', v) and struct.pack('>H', v) raise struct.error for a v
\* outside these ranges
Byte(v) == v \in 0..255
Word(v) == v \in 0..65535

\* a call of the tool that has not returned yet
Running(c) ==
    /\ c.fn \in {"block_read_modify_write", "validate_configuration"}
    /\ c.result.error = NotReturned

\* min(addresses), max(addresses)
MinOf(S) == CHOOSE x \in S : \A y \in S : x <= y
MaxOf(S) == CHOOSE x \in S : \A y \in S : x >= y

\* block_read_modify_write(slave_id, register_updates) is called, lines
\* 149-161: without updates it returns, otherwise it reads the block; what
\* struct.pack raises in read_holding_registers is caught at line 185
CallBlock(t, slave_id, register_updates) ==
    LET addresses == DOMAIN register_updates
        start_address == MinOf(addresses)
        register_count == (MaxOf(addresses) - start_address) + 1
        returns(value, error) ==
            /\ pc[t] = "idle"
            /\ call' = [fn |-> "block_read_modify_write",
                        arg |-> << slave_id, register_updates >>,
                        result |-> Result(value, error)]
            /\ UNCHANGED << master, bus, locals >>
    IN  /\ ~Running(call)
        /\ IF addresses = {}
           THEN returns(FALSE, "No register updates specified")
           ELSE IF ~(Word(start_address) /\ Word(register_count)
                       /\ Byte(slave_id))
           THEN returns(FALSE, "Block operation error")
           ELSE /\ BeginRequest(t, "read_holding_registers",
                                ReadRequest(slave_id, READ_HOLDING_REGISTERS,
                                            start_address, register_count))
                /\ call' = [fn |-> "block_read_modify_write",
                            arg |-> << slave_id, register_updates >>,
                            result |-> NoRet]
        /\ UNCHANGED nocall

\* lines 163-175: the values read, with the updates applied
modified_values(current_values, register_updates) ==
    LET start_address == MinOf(DOMAIN register_updates)
    IN  [j \in 1..Len(current_values) |->
            IF start_address + j - 1 \in DOMAIN register_updates
            THEN register_updates[start_address + j - 1]
            ELSE current_values[j]]

\* lines 161-178 without the test of line 160: a failed read counts as an
\* empty block
BlockModify_ignoring_read_error(t) ==
    LET slave_id == call.arg[1]
        register_updates == call.arg[2]
        current_values == IF ret[t].value = NoneBytes THEN << >>
                          ELSE ret[t].value
        values == modified_values(current_values, register_updates)
        returns(error) ==
            /\ call' = [call EXCEPT !.result = Result(FALSE, error)]
            /\ UNCHANGED << master, bus, locals >>
    IN  /\ pc[t] = "idle"
        /\ call.fn = "block_read_modify_write"
        /\ Running(call)
        /\ op[t] = "read_holding_registers"
        /\ IF current_values = NoneBytes
           THEN returns("Failed to read current values: " \o ret[t].error)
           ELSE IF ~(/\ \A j \in 1..Len(values) : Word(values[j])
                     /\ Byte(Len(values) * 2))
           THEN returns("Block operation error")
           ELSE /\ BeginRequest(t, "write_multiple_registers",
                                WriteMultipleRequest(
                                    slave_id,
                                    MinOf(DOMAIN register_updates), values))
                /\ UNCHANGED call
        /\ UNCHANGED nocall

\* lines 161-178: read_holding_registers has returned; the block is written
\* back, and what struct.pack raises in write_multiple_registers (lines
\* 615-618 of the Master) is caught at line 185
BlockModify(t) ==
    LET slave_id == call.arg[1]
        register_updates == call.arg[2]
        current_values == ret[t].value
        values == modified_values(current_values, register_updates)
        returns(error) ==
            /\ call' = [call EXCEPT !.result = Result(FALSE, error)]
            /\ UNCHANGED << master, bus, locals >>
    IN  /\ pc[t] = "idle"
        /\ call.fn = "block_read_modify_write"
        /\ Running(call)
        /\ op[t] = "read_holding_registers"
        /\ IF current_values = NoneBytes
           THEN returns("Failed to read current values: " \o ret[t].error)
           ELSE IF ~(/\ \A j \in 1..Len(values) : Word(values[j])
                     /\ Byte(Len(values) * 2))
           THEN returns("Block operation error")
           ELSE /\ BeginRequest(t, "write_multiple_registers",
                                WriteMultipleRequest(
                                    slave_id,
                                    MinOf(DOMAIN register_updates), values))
                /\ UNCHANGED call
        /\ UNCHANGED nocall

\* lines 178-183: write_multiple_registers has returned
BlockFinish(t) ==
    /\ pc[t] = "idle"
    /\ call.fn = "block_read_modify_write"
    /\ Running(call)
    /\ op[t] = "write_multiple_registers"
    /\ call' = [call EXCEPT !.result =
                   IF ret[t].error = NoneStr
                   THEN Result(TRUE, "Block write successful")
                   ELSE Result(FALSE, "Block write failed: " \o ret[t].error)]
    /\ UNCHANGED << master, bus, locals, nocall >>

\* validate_configuration(slave_id, new_slave_id, new_baudrate) is called,
\* lines 200-212: it returns, or probes the new slave ID
CallValidate(t, slave_id, new_slave_id, new_baudrate) ==
    LET returns(value, error) ==
            /\ pc[t] = "idle"
            /\ call' = [fn |-> "validate_configuration",
                        arg |-> << slave_id, new_slave_id, new_baudrate >>,
                        result |-> Result(value, error)]
            /\ UNCHANGED << master, bus, locals >>
    IN  /\ ~Running(call)
        /\ IF ~(1 <= new_slave_id /\ new_slave_id <= 247)
           THEN returns(FALSE, "Slave ID must be between 1 and 247")
           ELSE IF ~(300 <= new_baudrate /\ new_baudrate <= 1000000)
           THEN returns(FALSE, "Baud rate must be between 300 and 1,000,000")
           ELSE IF new_slave_id = slave_id
           THEN returns(TRUE, "Configuration valid")
           ELSE /\ BeginRequest(t, "probe_device",
                                ProbeRequest(new_slave_id, 65535))
                /\ call' = [fn |-> "validate_configuration",
                            arg |-> << slave_id, new_slave_id,
                                       new_baudrate >>,
                            result |-> NoRet]
        /\ UNCHANGED nocall

\* lines 211-215: probe_device has returned
ValidateFinish(t) ==
    /\ pc[t] = "idle"
    /\ call.fn = "validate_configuration"
    /\ Running(call)
    /\ op[t] = "probe_device"
    /\ call' = [call EXCEPT !.result =
                   IF is_valid(resp[t])
                   THEN Result(FALSE, "Slave ID appears to already be in use")
                   ELSE Result(TRUE, "Configuration valid")]
    /\ UNCHANGED << master, bus, locals, nocall >>

\* the tool is connected; it validates and writes configurations of slave 1
\* with register 0 for the slave ID and register 1 for the baud rate, with
\* a slave ID or an address that struct.pack refuses and with values that
\* do not fit a register; the device answers a request, whatever it is,
\* with a block of one or two registers, with the echo of a write, with an
\* exception, with a block that is shorter than its byte count, with a
\* frame whose CRC does not match or not at all
UpdaterThread == "t1"
BlockSlaveIds == {1, 250, 256}
RegisterUpdates ==
    {NoKeys, 0 :> 2, 1 :> 115200, 0 :> 2 @@ 1 :> 115200, 0 :> 2 @@ 1 :> 9600,
     65536 :> 2, 0 :> 70000}
UpdaterFrames ==
    {WithCrc(<< 1, 3, 2, 0, 1 >>), WithCrc(<< 1, 3, 4, 0, 1, 37, 128 >>),
     WithCrc(<< 1, 16, 0, 0, 0, 2 >>), WithCrc(<< 1, 131, 2 >>),
     WithCrc(<< 1, 3, 4, 0, 1 >>)}
NextUpdater ==
    \/ \E sid \in BlockSlaveIds, u \in RegisterUpdates :
           CallBlock(UpdaterThread, sid, u)
    \/ BlockModify(UpdaterThread)
    \/ BlockFinish(UpdaterThread)
    \/ \E new \in {0, 1, 2}, b \in {100, 9600, 115200} :
           CallValidate(UpdaterThread, 1, new, b)
    \/ ValidateFinish(UpdaterThread)
    \/ SendCheck(UpdaterThread)
    \/ SendLock(UpdaterThread)
    \/ SendReset(UpdaterThread)
    \/ SendWrite(UpdaterThread)
    \/ ReadChunk(UpdaterThread, FALSE)
    \/ rx = << >> /\ ReadBreak(UpdaterThread)
    \/ \E f \in UpdaterFrames : DeviceRespond(f, -1, Len(f))
    \/ DeviceRespond(WithCrc(<< 1, 131, 2 >>), 16, 5)
SpecUpdater == InitMonitor /\ [][NextUpdater]_vars

\* the configuration tool writes registers 0 and 2 of slave 1 as a block
\* while a second thread writes register 1 of the same slave through the
\* same Master; the device answers with the block of three registers, with
\* the echo of either write or not at all
OtherThread == "t2"
BlockUpdates == 0 :> 2 @@ 2 :> 5
BlockFrames ==
    {WithCrc(<< 1, 3, 6, 0, 1, 0, 4, 0, 3 >>),
     WithCrc(<< 1, 16, 0, 0, 0, 3 >>), WithCrc(<< 1, 6, 0, 1, 0, 7 >>)}

NextBlock ==
    \/ CallBlock(UpdaterThread, 1, BlockUpdates)
    \/ BlockModify(UpdaterThread)
    \/ BlockFinish(UpdaterThread)
    \/ CallWriteSingle(OtherThread, 1, 1, 7)
    \/ \E t \in Threads :
        \/ SendCheck(t)
        \/ SendLock(t)
        \/ SendReset(t)
        \/ SendWrite(t)
        \/ ReadChunk(t, FALSE)
        \/ rx = << >> /\ ReadBreak(t)
    \/ \E f \in BlockFrames : DeviceRespond(f, -1, Len(f))

SpecBlock == InitMonitor /\ [][NextBlock]_vars

\* the monitor's statistics: a monitor created with or without a list of
\* slave IDs, _process_frame called with frames of two slaves (Modbus RTU
\* and unknown protocol) and a frame of slave 0, at clock readings 0, 100,
\* 500 or 800 ms apart
ConfiguredIds == {{}, {17, 18}}
TrafficFrames ==
    {WithCrc(<< 17, 3, 2, 0, 1 >>), << 18, 99, 0, 0 >>, << 0, 3, 2, 0 >>}
TrafficGaps == {0, 100, 500, 800}
InitCreated(ids) ==
    /\ config = NoConfig
    /\ serial_connection = "None"
    /\ is_connected = FALSE
    /\ op = [t \in Threads |-> "none"]
    /\ ret = [t \in Threads |-> NoRet]
    /\ stats = InitStats
    /\ slave_ids = ids
    /\ InitExceptConnection
InitTraffic == \E ids \in ConfiguredIds : InitCreated(ids)
NextTraffic ==
    \E f \in TrafficFrames, dt \in TrafficGaps : CallProcessFrame(f, dt)
SpecTraffic == InitTraffic /\ [][NextTraffic]_vars

\* the polling filter: frames of the two slaves of the monitor's list arrive
\* together, 9 ms, 10 ms or 800 ms apart, and a Modbus ASCII frame, whose
\* first byte 58 is not in the list, arrives together with another frame
PollFrames == {WithCrc(<< 17, 3, 2, 0, 1 >>), << 18, 99, 0, 0 >>}
PollGaps == {0, 9, 10, 800}
PollTraffic == (PollFrames \X PollGaps) \cup {<< << 58, 49, 49, 48 >>, 0 >>}
NextPoll == \E x \in PollTraffic : CallProcessFrame(x[1], x[2])
InitPoll == InitCreated({17, 18})
SpecPoll == InitPoll /\ [][NextPoll]_vars

\* waves: frames of the two slaves of the monitor's list arrive together,
\* 100 ms or 600 ms apart, up to the clock reading MaxWaveTime, so that a
\* slave can close three waves
MaxWaveTime == 1800
WaveGaps == {0, 100, 600}
CallProcessFrameUntil(f, dt, until) ==
    /\ Processed < MaxProcessed
    /\ now + dt <= until
    /\ now' = now + dt
    /\ \E m \in {process_frame(Monitor, f, now + dt)} :
           /\ slave_ids' = m.slave_ids
           /\ slave_stats' = m.slave_stats
           /\ wave_stats' = m.wave_stats
           /\ detected_protocols' = m.detected_protocols
           /\ data_queue' = m.data_queue
    /\ UNCHANGED << master, bus, locals, call, scanvars, discvars,
                    monitoring, worker, traffic >>
NextWaves ==
    \E f \in PollFrames, dt \in WaveGaps :
        CallProcessFrameUntil(f, dt, MaxWaveTime)
SpecWaves == InitPoll /\ [][NextWaves]_vars

\* the rates: get_current_rates is called before, between and after frames
\* that arrive together or 800 ms apart
RatesGaps == {0, 800}
NextRates ==
    \/ \E f \in TrafficFrames, dt \in RatesGaps : CallProcessFrame(f, dt)
    \/ \E dt \in {0, 100} : GetCurrentRates(dt)
SpecRates == InitTraffic /\ [][NextRates]_vars

\* the same calls on a monitor created without a list of slave IDs
SpecAuto == InitCreated({}) /\ [][NextRates]_vars

\* protocol detection: frames of every kind are analysed while the monitor
\* connects and disconnects
DetectThread == "t1"
DetectFrames ==
    TrafficFrames \cup
    {<< 58, 49, 49, 48 >>, << 17, 3, 2 >>, << 17, 3, 2, 0 >>,
     << 17, 3, 2, 0, 1, 0, 0 >>, << 17, 99, 0, 0 >>, WithCrc(<< 18, 131, 2 >>), WithCrc(<< 58, 3, 0 >>),
     WithCrc(<< 0, 3, 2, 0, 1 >>), WithCrc(<< 248, 3, 2, 0, 1 >>),
     << 0, 0, 0, 0 >>, << 255, 58, 0, 0 >>, << 0, 58, 49, 49 >>}
NextDetect ==
    \/ \E f \in DetectFrames : CallAnalyzeFrameValidity(f)
    \/ CallConnect(DetectThread, 9600)
    \/ ConnectLock(DetectThread)
    \/ ConnectClose(DetectThread)
    \/ \E outcome \in {"ok", "open_fails"} : ConnectOpen(DetectThread, outcome)
    \/ CallDisconnect(DetectThread)
    \/ DisconnectLock(DetectThread)
    \/ DisconnectClose(DetectThread)
SpecDetect == Init /\ [][NextDetect]_vars

\* the stateless functions, called with every argument of these sets
\* receive buffers: slave 17, a function code, a byte-count byte, zeros
FunctionBytes == {0, 1, 2, 3, 4, 5, 6, 7, 15, 16, 129, 131, 144}
Padded(fc, bc, n) ==
    [j \in 1..n |-> IF j = 1 THEN 17 ELSE IF j = 2 THEN fc
                    ELSE IF j = 3 THEN bc ELSE 0]
Buffers ==
    {Padded(fc, bc, n) : fc \in FunctionBytes, bc \in 0..(MaxByteCount + 1),
                         n \in 0..(MaxByteCount + 7)}

\* the spec's test vector 01 03 00 00 00 01
CrcTestVector == << 1, 3, 0, 0, 0, 1 >>
CrcInputs == SeqsUpTo({0, 1, 255}, MaxByteCount) \cup {CrcTestVector}

NextPure ==
    \/ \E b \in Buffers : CallIsCompleteFrame(b)
    \/ \E d \in CrcInputs : CallCalculateCrc(d)

SpecPure == Init /\ [][NextPure]_vars

\* the counters after any number of cycles: a response or a CRC error needs
\* a request, an exception needs a response
MaxCount == 10
CounterValues ==
    {st \in [requests_sent : 0..MaxCount, responses_received : 0..MaxCount,
             timeouts : 0..MaxCount, crc_errors : 0..MaxCount,
             exceptions : 0..MaxCount] :
        /\ st.responses_received + st.crc_errors <= st.requests_sent
        /\ st.exceptions <= st.responses_received}

InitStatistics == stats \in CounterValues /\ InitExceptStats

NextStatistics ==
    \/ GetStatistics
    \/ ResetStatistics

SpecStatistics == InitStatistics /\ [][NextStatistics]_vars

(* =============================================================== claims *)
\* thread t has returned from a request operation
Returned(t) == pc[t] = "idle" /\ op[t] \in RequestOps /\ ~raised[t]

ReadOps == {"read_holding_registers", "read_input_registers"}
WriteOps == {"write_single_register", "write_multiple_registers"}

\* s is a prefix of u
IsPrefix(s, u) == Len(s) <= Len(u) /\ s = SubSeq(u, 1, Len(s))

\* t has reset the input buffer and has not finished reading its response
InCycle(t) == pc[t] \in {"sf_write", "rr_loop"}

\* C1: while one thread's transmit/receive cycle is in flight, a step that
\* is not a step of that thread does not reset, read, write to, close or
\* reopen the serial connection: the connection stays as it is, the input
\* buffer only grows by bytes the device sends, and the outstanding request
\* is only taken by the device.
C1_CycleNotInterleaved ==
    [][\A t \in Threads :
          (InCycle(t) /\ pc'[t] = pc[t] /\ buffer'[t] = buffer[t])
          => /\ serial_connection' = serial_connection
             /\ is_connected' = is_connected
             /\ IsPrefix(rx, rx')
             /\ tx' \in {tx, << >>}]_vars

\* a cycle is in flight while the other thread waits for the lock
C1_Witness ==
    \E t \in Threads, u \in Threads :
        /\ t # u
        /\ pc[t] = "rr_loop"
        /\ lock = t
        /\ pc[u] \in {"sf_lock", "c_lock", "d_lock"}

\* number of active outcomes of a response
ActiveOutcomes(r) ==
    (IF r.data # NoneBytes THEN 1 ELSE 0)
    + (IF r.exception_code # NoneInt THEN 1 ELSE 0)
    + (IF r.timeout THEN 1 ELSE 0)
    + (IF r.crc_error THEN 1 ELSE 0)

\* C2: every response returned by a request cycle has exactly one active
\* outcome among data, exception code, timeout and CRC error, and is_valid
\* is true iff neither the timeout nor the CRC-error flag is set.
C2_OneActiveOutcome ==
    \A t \in Threads :
        Returned(t) =>
            /\ ActiveOutcomes(resp[t]) = 1
            /\ is_valid(resp[t]) <=> (~resp[t].timeout /\ ~resp[t].crc_error)
            /\ is_valid(resp[t]) <=>
                   (resp[t].data # NoneBytes
                      \/ resp[t].exception_code # NoneInt)

\* probe_device has returned a CRC-error response
C2_Witness ==
    \E t \in Threads :
        /\ Returned(t)
        /\ op[t] = "probe_device"
        /\ resp[t].crc_error
        /\ ~is_valid(resp[t])

\* C3: a received frame of at least 5 bytes whose trailer differs from the
\* little-endian CRC16 of the preceding bytes is parsed into a response with
\* crc_error set, timeout clear, no payload and no exception code, and the
\* crc_errors counter grows by exactly 1 while responses_received and
\* timeouts do not change.
C3_CrcErrorReported ==
    [][\A t \in Threads :
          (/\ pc[t] = "rr_loop"
           /\ pc'[t] = "idle"
           /\ Len(buffer'[t]) >= 5
           /\ UnpackLE16(Last2(buffer'[t]))
                  # calculate_crc(DropLast2(buffer'[t])))
          => /\ resp'[t].crc_error
             /\ ~resp'[t].timeout
             /\ resp'[t].data = NoneBytes
             /\ resp'[t].exception_code = NoneInt
             /\ stats'.crc_errors = stats.crc_errors + 1
             /\ stats'.responses_received = stats.responses_received
             /\ stats'.timeouts = stats.timeouts]_vars

\* a frame with a wrong trailer has been parsed
C3_Witness ==
    \E t \in Threads :
        /\ Returned(t)
        /\ Len(buffer[t]) >= 5
        /\ resp[t].crc_error
        /\ stats.crc_errors >= 1
        /\ UnpackLE16(Last2(buffer[t])) # calculate_crc(DropLast2(buffer[t]))

\* f is a well-formed frame: at least 5 bytes, ending in the CRC of the rest
WellFormed(f) == Len(f) >= 5 /\ f = WithCrc(DropLast2(f))

\* bit positions outside the two CRC bytes
PayloadBits(f) == 0..(8 * (Len(f) - 2) - 1)

\* C4: a frame that is a well-formed frame with one bit outside the CRC
\* field inverted is reported as a CRC error, never accepted.
C4_SingleBitFlipDetected ==
    \A t \in Threads :
        (Returned(t) /\ Len(buffer[t]) >= 5)
        => \/ resp[t].crc_error /\ ~is_valid(resp[t])
           \/ \A n \in PayloadBits(buffer[t]) :
                  ~WellFormed(FlipBit(buffer[t], n))

\* the frame 11 03 04 00 01 00 02 + CRC arrived with bit 0 of byte 4 inverted
C4_Witness ==
    \E t \in Threads :
        /\ Returned(t)
        /\ buffer[t] = FlipBit(WithCrc(<< 17, 3, 4, 0, 1, 0, 2 >>), 32)
        /\ resp[t].crc_error

\* C5: a request cycle never raises: _send_frame returns a ModbusResponse
\* and the read/write operations return a (value, error) pair, whether the
\* device is silent, answers with a bad CRC or an exception, or the
\* transport raises.
C5_NeverRaises ==
    \A t \in Threads :
        op[t] \in RequestOps =>
            /\ ~raised[t]
            /\ pc[t] = "idle" =>
                 /\ resp[t] # NoResp
                 /\ op[t] \in ReadOps \cup WriteOps =>
                        ret[t].error # NotReturned

\* the transport raised before the request was written and the read
\* operation returned the timeout error
C5_Witness ==
    \E t \in Threads :
        /\ Returned(t)
        /\ op[t] \in ReadOps
        /\ ret[t] = Result(NoneBytes, "Request timeout")
        /\ is_connected
        /\ stats.timeouts > 0
        /\ stats.requests_sent = 0

\* the error a read operation must report for response r, by priority;
\* NoneStr when no error applies
ExpectedReadError(r) ==
    IF r.timeout THEN "Request timeout"
    ELSE IF r.crc_error THEN "CRC error in response"
    ELSE IF r.exception_code # NoneInt
         THEN "Modbus exception: " \o exception_name(r)
    ELSE IF r.data = NoneBytes \/ r.data = << >>
         THEN "Invalid response data"
    ELSE IF r.data[1] > Len(r.data) - 1 THEN "Incomplete register data"
    ELSE NoneStr

\* C6: a register read returns exactly one of a register list and an error
\* string; the error is chosen by priority: timeout, CRC error, exception,
\* empty payload, declared byte count larger than the data present;
\* registers are returned only when none applies.
C6_ReadErrorPriority ==
    \A t \in Threads :
        (Returned(t) /\ op[t] \in ReadOps) =>
            /\ ret[t].error = ExpectedReadError(resp[t])
            /\ (ret[t].value = NoneBytes) <=> (ret[t].error # NoneStr)

\* a response declaring more data bytes than it carries was reported as
\* incomplete
C6_Witness ==
    \E t \in Threads :
        /\ Returned(t)
        /\ op[t] \in ReadOps
        /\ is_valid(resp[t])
        /\ resp[t].exception_code = NoneInt
        /\ resp[t].data[1] > Len(resp[t].data) - 1
        /\ ret[t] = Result(NoneBytes, "Incomplete register data")

\* C7: for a valid non-exception read response whose byte-count field equals
\* the number of data bytes after it, the read returns byte_count \div 2
\* registers and no error, register i being 256 * data[2i] + data[2i+1]
\* (offsets from 0 within the data bytes), a trailing odd byte dropped; the
\* response 11 03 04 00 01 00 02 decodes to [1, 2].
C7_RegistersDecodedBigEndian ==
    \A t \in Threads :
        (/\ Returned(t)
         /\ op[t] \in ReadOps
         /\ is_valid(resp[t])
         /\ resp[t].exception_code = NoneInt
         /\ resp[t].data # << >>
         /\ resp[t].data[1] = Len(resp[t].data) - 1)
        => LET d == Tail(resp[t].data)
               regs == ret[t].value
           IN /\ ret[t].error = NoneStr
              /\ Len(regs) = Len(d) \div 2
              /\ \A i \in 1..Len(regs) :
                     regs[i] = 256 * d[2 * i - 1] + d[2 * i]
              /\ buffer[t] = WithCrc(<< 17, 3, 4, 0, 1, 0, 2 >>)
                     => regs = << 1, 2 >>

\* three data bytes were decoded into one register, the last byte dropped
C7_Witness ==
    \E t \in Threads :
        /\ Returned(t)
        /\ op[t] \in ReadOps
        /\ buffer[t] = WithCrc(<< 17, 3, 3, 1, 255, 255 >>)
        /\ ret[t] = Result(<< 511 >>, NoneStr)

\* the two-register example was decoded
C7_WitnessExample ==
    \E t \in Threads :
        /\ Returned(t)
        /\ op[t] \in ReadOps
        /\ buffer[t] = WithCrc(<< 17, 3, 4, 0, 1, 0, 2 >>)
        /\ ret[t] = Result(<< 1, 2 >>, NoneStr)

\* C8: when 1 to 4 bytes were received the caller sees what it sees when
\* nothing was received: the response with only the timeout flag active,
\* and "Request timeout" from the read and write operations.
C8_ShortFrameIsTimeout ==
    \A t \in Threads :
        (Returned(t) /\ Len(buffer[t]) <= 4) =>
            /\ resp[t] = TimeoutResponse
            /\ resp[t].timeout /\ ActiveOutcomes(resp[t]) = 1
            /\ op[t] \in ReadOps =>
                   ret[t] = Result(NoneBytes, "Request timeout")
            /\ op[t] \in WriteOps => ret[t] = Result(FALSE, "Request timeout")

\* four bytes were received and the write operation reported a timeout
C8_Witness ==
    \E t \in Threads :
        /\ Returned(t)
        /\ op[t] \in WriteOps
        /\ Len(buffer[t]) = 4
        /\ resp[t] = TimeoutResponse
        /\ ret[t] = Result(FALSE, "Request timeout")

\* C9: a CRC-valid frame whose function-code byte has bit 0x80 set is parsed
\* as an exception: exception_code is the byte at offset 2, function_code
\* the received byte without bit 0x80, no payload; a CRC-valid frame without
\* that bit is not an exception and its payload is the bytes between the
\* function code and the CRC.
C9_ExceptionParsed ==
    \A t \in Threads :
        (Returned(t) /\ WellFormed(buffer[t])) =>
            LET b == buffer[t]
                r == resp[t]
            IN IF b[2] >= 128
               THEN /\ is_exception(r)
                    /\ r.exception_code = b[3]
                    /\ r.function_code = b[2] - 128
                    /\ r.data = NoneBytes
               ELSE /\ ~is_exception(r)
                    /\ r.function_code = b[2]
                    /\ r.data = SubSeq(b, 3, Len(b) - 2)

\* the frame 11 83 02 + CRC was parsed as exception 2 of function 3
C9_Witness ==
    \E t \in Threads :
        /\ Returned(t)
        /\ buffer[t] = WithCrc(<< 17, 131, 2 >>)
        /\ is_exception(resp[t])
        /\ resp[t].function_code = 3
        /\ exception_name(resp[t]) = "Illegal Data Address"

\* C10 as stated: every exception code in 1..11 has a fixed name that is not
\* "Unknown Exception (N)", every other code renders as that.
C10_AllCodes1To11Named ==
    \A t \in Threads :
        (Returned(t) /\ is_exception(resp[t])) =>
            LET n == resp[t].exception_code
            IN IF n \in 1..11
               THEN exception_name(resp[t]) # UnknownException(n)
               ELSE exception_name(resp[t]) = UnknownException(n)

\* the exception codes the table names
NamedCodes == {1, 2, 3, 4, 5, 6, 8, 10, 11}

FixedNames ==
    {"Illegal Function", "Illegal Data Address", "Illegal Data Value",
     "Slave Device Failure", "Acknowledge", "Slave Device Busy",
     "Memory Parity Error", "Gateway Path Unavailable",
     "Gateway Target Failed"}

\* C10 amended: the codes 1, 2, 3, 4, 5, 6, 8, 10 and 11 have a fixed name
\* that is not "Unknown Exception (N)"; every other code, 7 and 9 included,
\* renders as "Unknown Exception (N)", also in the error of a read or write.
C10_NamedCodes ==
    \A t \in Threads :
        (Returned(t) /\ is_exception(resp[t])) =>
            LET n == resp[t].exception_code
                name == exception_name(resp[t])
            IN /\ IF n \in NamedCodes
                  THEN name \in FixedNames /\ name # UnknownException(n)
                  ELSE name = UnknownException(n)
               /\ op[t] \in ReadOps \cup WriteOps =>
                      ret[t].error = "Modbus exception: " \o name

\* exception code 11 was reported by its name, code 7 as unknown
C10_Witness ==
    \E t \in Threads :
        /\ Returned(t)
        /\ op[t] \in ReadOps
        /\ resp[t].exception_code = 11
        /\ ret[t].error = "Modbus exception: Gateway Target Failed"

C10_WitnessUnknown ==
    \E t \in Threads :
        /\ Returned(t)
        /\ op[t] \in ReadOps
        /\ resp[t].exception_code = 7
        /\ ret[t].error = "Modbus exception: Unknown Exception (7)"
\* the answer the completeness rules give for buffer b, by priority
ExpectedComplete(b) ==
    IF Len(b) < 5 THEN FALSE
    ELSE IF b[2] >= 128 THEN TRUE
    ELSE IF b[2] \in {1, 2, 3, 4} THEN Len(b) >= 5 + b[3]
    ELSE IF b[2] \in {5, 6, 15, 16} THEN Len(b) >= 8
    ELSE TRUE

\* C11: the completeness predicate answers, by priority: fewer than 5 bytes
\* incomplete; function-code byte with bit 0x80 complete; function codes 1-4
\* complete iff length >= 5 + buffer[2]; function codes 5, 6, 15, 16
\* complete iff length >= 8; any other function code complete. A
\* read-holding-registers response declaring 4 data bytes is incomplete at
\* length 8 and complete at length 9.
C11_CompletenessRules ==
    call.fn = "_is_complete_frame" =>
        /\ call.result = ExpectedComplete(call.arg)
        /\ call.arg = Padded(3, 4, 8) => call.result = FALSE
        /\ call.arg = Padded(3, 4, 9) => call.result = TRUE

\* the predicate was asked about 8 bytes of a response declaring 4 data bytes
C11_Witness ==
    /\ call.fn = "_is_complete_frame"
    /\ call.arg = << 17, 3, 4, 0, 0, 0, 0, 0 >>
    /\ call.result = FALSE

\* C12: every request frame built by the read, single-write, multiple-write
\* and probe operations is payload_length + 4 bytes long (8 bytes for a
\* read, a single write and a probe, 9 + 2n for a write of n registers),
\* ends with the CRC16 of the preceding bytes, low byte first, and is not a
\* CRC error for the parser; the bytes written to the port are that frame.
C12_RequestFrameWellFormed ==
    \A t \in Threads :
        (op[t] \in RequestOps /\ frame[t] # << >>) =>
            LET f == frame[t]
            IN /\ Len(f) >= 8
               /\ op[t] \in ReadOps \cup {"write_single_register",
                                          "probe_device"} => Len(f) = 8
               /\ op[t] = "write_multiple_registers" =>
                      /\ Len(f) = 9 + 2 * UnpackBE16(SubSeq(f, 5, 6))
                      /\ f[7] = 2 * UnpackBE16(SubSeq(f, 5, 6))
               /\ f[Len(f) - 1] = calculate_crc(DropLast2(f)) % 256
               /\ f[Len(f)] = calculate_crc(DropLast2(f)) \div 256
               /\ ~parse_response(f, InitStats).resp.crc_error
               /\ parse_response(f, InitStats).resp.raw_frame = f
               /\ pc[t] = "rr_loop" => tx = f

\* a write of two registers was built: 13 bytes
C12_Witness ==
    \E t \in Threads :
        /\ op[t] = "write_multiple_registers"
        /\ Len(frame[t]) = 13
        /\ SubSeq(frame[t], 1, 11) = << 17, 16, 0, 100, 0, 2, 4, 1, 2, 0, 1 >>
        /\ pc[t] = "rr_loop"
        /\ tx = frame[t]

\* the CRC register after bit k of byte i and all bits before it, one bit
\* at a time: the register's low bit is compared with the data bit, the
\* register shifts right and 0xA001 is added when they differ
RECURSIVE CrcBitSerial(_, _, _, _)
CrcBitSerial(data, i, k, crc) ==
    IF i > Len(data) THEN crc
    ELSE LET differ == (crc % 2) # Bit(data[i], k)
             c == IF differ THEN XorA001(crc \div 2) ELSE crc \div 2
         IN IF c < 0 THEN c
            ELSE IF k = 7 THEN CrcBitSerial(data, i + 1, 0, c)
            ELSE CrcBitSerial(data, i, k + 1, c)

\* C13: calculate_crc is the reflected Modbus CRC16: initial value 0xFFFF,
\* polynomial 0xA001, eight shift/XOR steps per byte, least-significant bit
\* first; its value is in 0..0xFFFF; for 01 03 00 00 00 01 it is 0x0A84.
C13_CrcIsModbusCrc16 ==
    call.fn = "calculate_crc" =>
        /\ call.result \in 0..65535
        /\ call.result = CrcBitSerial(call.arg, 1, 0, 65535)
        /\ call.arg = << >> => call.result = 65535
        /\ call.arg = << 1, 3, 0, 0, 0, 1 >> => call.result = 2692

\* the CRC of the test vector was computed
C13_Witness ==
    /\ call.fn = "calculate_crc"
    /\ call.arg = << 1, 3, 0, 0, 0, 1 >>
    /\ call.result = 2692

\* C17: get_statistics reports success_rate = 100 * responses_received /
\* requests_sent and error_rate = 100 * (timeouts + crc_errors) /
\* requests_sent when requests_sent > 0, both 0 otherwise; after 10
\* requests with 7 responses, 2 timeouts and 1 CRC error they are 70 and 30.
C17_Rates ==
    call.fn = "get_statistics" =>
        LET st == call.arg
            success == call.result.success_rate
            error == call.result.error_rate
        IN /\ success.den > 0 /\ error.den > 0
           /\ IF st.requests_sent > 0
              THEN /\ success.num * st.requests_sent
                          = 100 * st.responses_received * success.den
                   /\ error.num * st.requests_sent
                          = 100 * (st.timeouts + st.crc_errors) * error.den
              ELSE success.num = 0 /\ error.num = 0
           /\ (/\ st.requests_sent = 10 /\ st.responses_received = 7
               /\ st.timeouts = 2 /\ st.crc_errors = 1)
              => /\ success = [num |-> 70, den |-> 1]
                 /\ error = [num |-> 30, den |-> 1]

\* the rates were read after 10 requests, 7 responses, 2 timeouts and 1 CRC
\* error
C17_Witness ==
    /\ call.fn = "get_statistics"
    /\ stats.requests_sent = 10
    /\ stats.responses_received = 7
    /\ stats.timeouts = 2
    /\ stats.crc_errors = 1
    /\ call.result.success_rate = [num |-> 70, den |-> 1]
    /\ call.result.error_rate = [num |-> 30, den |-> 1]
\* the responses a scan has obtained, and its callbacks and probes, in order
Responses(ev) == SelectSeq(ev, LAMBDA e : e.kind = "response")
Calls(ev) == SelectSeq(ev, LAMBDA e : e.kind # "response")

\* response j of R is valid and no earlier valid response reported its ID
Recorded(R, j) ==
    /\ is_valid(R[j].response)
    /\ \A i \in 1..(j - 1) :
           ~(/\ is_valid(R[i].response)
             /\ R[i].response.slave_id = R[j].response.slave_id)

\* the entries the first j responses of R must have produced
RECURSIVE ExpectedFound(_, _)
ExpectedFound(R, j) ==
    IF j = 0 THEN << >>
    ELSE ExpectedFound(R, j - 1)
         \o (IF Recorded(R, j)
             THEN << << R[j].response.slave_id, R[j].response >> >>
             ELSE << >>)

\* C14: in scan_slaves a probe result is recorded as a found device iff the
\* response is valid (neither timeout nor CRC error) and its reported slave
\* ID has not been recorded earlier in the same scan, exception response or
\* not; a timeout or CRC-error response never produces an entry.
C14_FoundIffValidAndNew ==
    \A t \in Threads :
        op[t] = "scan_slaves" =>
            LET R == Responses(events)
                found == scan[t].found_devices
            IN /\ found = ExpectedFound(R, Len(R))
               /\ \A k \in 1..Len(found) :
                      ~found[k][2].timeout /\ ~found[k][2].crc_error
               /\ scan[t].found_ids = {found[k][1] : k \in 1..Len(found)}
               /\ pc[t] = "idle" =>
                      /\ ret[t].error = NoneStr
                      /\ ret[t].value = found

\* a scan has returned an exception response as its only entry, after a
\* timeout and a CRC error
C14_Witness ==
    \E t \in Threads :
        /\ op[t] = "scan_slaves"
        /\ pc[t] = "idle"
        /\ Len(ret[t].value) = 1
        /\ is_exception(ret[t].value[1][2])
        /\ \E i, j \in 1..Len(events) :
               /\ events[i].kind = "response" /\ events[i].response.timeout
               /\ events[j].kind = "response" /\ events[j].response.crc_error

\* the position of the first response of R equal to r; 0 if there is none
FirstPos(R, r) ==
    IF \E j \in 1..Len(R) : R[j].response = r
    THEN CHOOSE j \in 1..Len(R) :
             /\ R[j].response = r
             /\ \A i \in 1..(j - 1) : R[i].response # r
    ELSE 0

\* C15: the list returned by scan_slaves holds at most one entry per
\* reported slave ID (the ID in the response frame, not the probed ID), and
\* its entries are in the order in which their responses were obtained.
C15_OneEntryPerReportedId ==
    \A t \in Threads :
        op[t] = "scan_slaves" =>
            LET R == Responses(events)
                found == scan[t].found_devices
            IN /\ \A k, l \in 1..Len(found) :
                      k # l => found[k][1] # found[l][1]
               /\ \A k \in 1..Len(found) :
                      /\ found[k][1] = found[k][2].slave_id
                      /\ found[k][1] = found[k][2].raw_frame[1]
                      /\ FirstPos(R, found[k][2]) > 0
               /\ \A k, l \in 1..Len(found) :
                      k < l => FirstPos(R, found[k][2])
                                   < FirstPos(R, found[l][2])

\* the probes of IDs 2 and 3 were both answered by a device reporting ID 1,
\* and the scan returned one entry, for ID 1
C15_Witness ==
    \E t \in Threads :
        /\ op[t] = "scan_slaves"
        /\ pc[t] = "idle"
        /\ Len(ret[t].value) = 1
        /\ ret[t].value[1][1] = 1
        /\ \E i, j \in 1..Len(events) :
               /\ i < j
               /\ events[i].kind = "response" /\ events[j].kind = "response"
               /\ events[i].slave_id = 2 /\ events[j].slave_id = 3
               /\ events[i].response.slave_id = 1
               /\ events[j].response.slave_id = 1
               /\ is_valid(events[i].response)
               /\ is_valid(events[j].response)

\* the callbacks and probes of a scan of the first n IDs of range r
RECURSIVE ExpectedCalls(_, _, _)
ExpectedCalls(r, cb, n) ==
    IF n = 0 THEN << >>
    ELSE ExpectedCalls(r, cb, n - 1)
         \o (IF cb THEN << Event("progress", r[n], Len(r), NoResp) >>
             ELSE << >>)
         \o << Event("probe", r[n], 0, NoResp) >>

\* the number of IDs whose probe has begun
Started(t) ==
    IF scan[t].i = 0 THEN Len(scan[t].slave_range)
    ELSE IF pc[t] = "scan_loop" THEN scan[t].i - 1
    ELSE scan[t].i

\* C16: scan_slaves probes every ID of the range exactly once, in range
\* order, whatever the outcome of earlier probes, and calls the progress
\* callback (when one is given) exactly once per ID, before that ID's probe,
\* with the ID and the number of IDs in the range.
C16_EveryIdProbedOnce ==
    \A t \in Threads :
        op[t] = "scan_slaves" =>
            LET r == scan[t].slave_range
                R == Responses(events)
            IN /\ Calls(events)
                      = ExpectedCalls(r, scan[t].progress_callback,
                                      Started(t))
               /\ Len(R) \in {Started(t), Started(t) - 1}
               /\ pc[t] \in {"scan_loop", "idle"} => Len(R) = Started(t)
               /\ \A j \in 1..Len(R) : R[j].slave_id = r[j]
               /\ pc[t] = "idle" => Len(R) = Len(r)

\* a scan of IDs 1..MaxScan with a callback has finished although its first
\* probe timed out and its second met a CRC error
C16_Witness ==
    \E t \in Threads :
        /\ op[t] = "scan_slaves"
        /\ pc[t] = "idle"
        /\ scan[t].progress_callback
        /\ scan[t].slave_range = Range(1, MaxScan)
        /\ Len(events) = 3 * MaxScan
        /\ events[1] = Event("progress", 1, MaxScan, NoResp)
        /\ events[2] = Event("probe", 1, 0, NoResp)
        /\ events[3].response.timeout
        /\ events[6].response.crc_error

CounterNames == {"requests_sent", "responses_received", "timeouts",
                 "crc_errors", "exceptions"}

\* C18: across connect, disconnect, reconfiguration, request cycles and
\* scans no counter ever decreases, except by reset_statistics, which sets
\* all five to 0.
C18_CountersMonotone ==
    [][IF ResetStatistics
       THEN \A k \in CounterNames : stats'[k] = 0
       ELSE \A k \in CounterNames : stats'[k] >= stats[k]]_vars

\* the counters have survived a disconnect and a change of configuration
C18_Witness ==
    /\ stats.requests_sent >= 2
    /\ stats.responses_received >= 1
    /\ stats.timeouts >= 1
    /\ stats.exceptions >= 1
    /\ ~is_connected
    /\ serial_connection = "closed"
    /\ config = 19200
\* a probe of scan_slaves begins in this step
ProbeBegins(t) == pc[t] = "scan_loop" /\ pc'[t] = "sf_check"

\* C19 as stated: once stop_scan has been set during a discovery scan, at
\* most the probe in progress completes: no probe of a further slave ID
\* begins. It is stated for a flag that is set once the first probe of the
\* running scan_slaves call has begun, so that a probe is in progress or
\* over when the flag is seen.
C19_NoProbeAfterStop ==
    [][\A t \in Threads :
          (op[t] = "run_scan" /\ stop_scan /\ events # << >>)
          => ~ProbeBegins(t)]_vars

\* a monitor thread that is not running: never started, or returned
Terminated(w) == worker[w].pc \in {"none", "done"}

\* C20: while monitoring stays cleared (stop_monitoring was called and
\* start_monitoring was not called again) no monitor thread begins to process
\* a further captured frame, slave_ids and slave_stats change only by the
\* frame a thread is already processing, and every monitor thread eventually
\* terminates (unless monitoring is started again).
C20_StopEndsMonitoring ==
    /\ [][(~monitoring /\ ~monitoring') =>
            /\ \A w \in Workers :
                   worker'[w].pc = "m_process" => worker[w].pc = "m_process"
            /\ Monitor # Monitor'
               => \E w \in Workers : /\ worker[w].pc = "m_process"
                                     /\ worker'[w].pc = "m_for"]_monvars
    /\ ~monitoring ~> (monitoring \/ \A w \in Workers : Terminated(w))

\* monitoring was stopped while a batch was being processed: the thread has
\* returned, a frame was counted and a captured frame was left unprocessed
C20_Witness ==
    /\ ~monitoring
    /\ \E w \in Workers : worker[w].pc = "done" /\ worker[w].frames # << >>
    /\ slave_ids # {}
    /\ \A w \in Workers : Terminated(w)

\* C21 as stated: whatever start_monitoring and stop_monitoring calls are
\* made on a connected monitor, _process_frame is never entered by two
\* monitor threads at once.
C21_ProcessFrameNotReentered ==
    \A v, w \in Workers :
        (worker[v].pc = "m_process" /\ worker[w].pc = "m_process") => v = w

\* C22 as stated: a call of get_current_rates leaves slave_stats and
\* wave_stats unchanged, their sets of keys included.
C22_RatesLeaveStatistics ==
    [][(\E dt \in {0, 100} : GetCurrentRates(dt))
          => /\ slave_stats' = slave_stats
             /\ wave_stats' = wave_stats
             /\ DOMAIN slave_stats' = DOMAIN slave_stats
             /\ DOMAIN wave_stats' = DOMAIN wave_stats]_vars

\* C23 as stated: a frame of at least 4 bytes is accepted by
\* _analyze_frame_validity iff (a) its first byte is in 1..247, its second
\* byte is a function code 1..6, 15, 16 or one of them with bit 0x80 set and
\* its last two bytes are the little-endian CRC16 of the bytes before them,
\* or (b) its first byte is ':' (0x3A), or (c) any of its bytes is in
\* 1..247, whatever the first byte is.
C23_AcceptedIffPlausible ==
    (call.fn = "_analyze_frame_validity" /\ Len(call.arg) >= 4)
        => LET f == call.arg
               a == /\ f[1] \in 1..247
                    /\ \E c \in {1, 2, 3, 4, 5, 6, 15, 16} :
                           f[2] = c \/ f[2] = c + 128
                    /\ Last2(f) = PackLE16(calculate_crc(DropLast2(f)))
               b == f[1] = 58
               c == \E i \in 1..Len(f) : f[i] \in 1..247
           IN  call.result <=> (a \/ b \/ c)

\* C24: each of the flags modbus_rtu, modbus_ascii and custom of
\* detected_protocols is sticky: once true it is true in every later state,
\* whatever frames are analysed and whenever the monitor disconnects or
\* connects again.
C24_FlagsSticky ==
    [][\A k \in DOMAIN detected_protocols :
           detected_protocols[k] => detected_protocols'[k]]_vars

\* all three flags are set, the last frame analysed was rejected, and the
\* monitor has connected and disconnected since
C24_Witness ==
    /\ \A k \in DOMAIN detected_protocols : detected_protocols[k]
    /\ call.fn = "_analyze_frame_validity" /\ ~call.result
    /\ op[DetectThread] = "disconnect" /\ pc[DetectThread] = "idle"
    /\ ~is_connected

\* C25: when _process_frame takes an accepted frame of a monitored slave
\* that has a last_seen and the frame arrives less than 10 ms after it, the
\* slave's count, last_seen, intervals, min_interval, max_interval and
\* avg_rate are unchanged and no display event is queued; when the slave has
\* no last_seen yet or the frame arrives at least 10 ms after it, count
\* grows by exactly 1, last_seen is the frame's timestamp and exactly one
\* display event is queued.
C25_PollFilter ==
    [][\A x \in PollTraffic :
           LET f == x[1]
           IN  (/\ CallProcessFrame(f, x[2])
                /\ analyze_frame_validity(f)
                /\ slave_ids = {} \/ f[1] \in slave_ids)
               => LET before == Entry(slave_stats, f[1], new_slave_stats)
                      after == slave_stats'[f[1]]
                  IN  IF /\ before.last_seen # NoTime
                         /\ now' - before.last_seen < 10
                      THEN /\ after = before
                           /\ data_queue' = data_queue
                      ELSE /\ after.count = before.count + 1
                           /\ after.last_seen = now'
                           /\ Len(data_queue') = Len(data_queue) + 1
                           /\ SubSeq(data_queue', 1, Len(data_queue))
                                  = data_queue
                           /\ data_queue'[Len(data_queue')].slave_id = f[1]
                           /\ data_queue'[Len(data_queue')].timestamp = now']_vars

\* a slave was counted twice, 10 ms apart, and a third frame of it, 9 ms
\* after the second, was not: two display events are queued
C25_Witness ==
    \E id \in DOMAIN slave_stats :
        /\ slave_stats[id].count = 2
        /\ slave_stats[id].intervals = << 10 >>
        /\ Detected(wave_stats[id]) = 3
        /\ wave_stats[id].last_msg_time = slave_stats[id].last_seen + 9
        /\ Len(data_queue) = 2

\* C26: for each slave, a message whose gap to the slave's previous message
\* is strictly greater than the wave-gap threshold appends exactly one closed
\* wave whose message count is the number of messages since that wave
\* opened, and opens a new wave starting at this message with count 1; a
\* message whose gap does not exceed the threshold closes nothing and adds 1
\* to the open wave's count. Messages at 0, 100, 200 and 1000 ms with a
\* threshold of 500 ms give exactly one closed wave of 3 messages and an
\* open wave starting at 1000 ms.
C26_WaveSegmentation ==
    [][\A f \in TrafficFrames, dt \in TrafficGaps :
           (/\ CallProcessFrame(f, dt)
            /\ analyze_frame_validity(f)
            /\ slave_ids = {} \/ f[1] \in slave_ids
            /\ f[1] \in DOMAIN wave_stats
            /\ wave_stats[f[1]].last_msg_time # NoTime)
               => LET before == wave_stats[f[1]]
                      after == wave_stats'[f[1]]
                  IN  /\ now' - before.last_msg_time > 500
                          => /\ Len(after.waves) = Len(before.waves) + 1
                             /\ SubSeq(after.waves, 1, Len(before.waves))
                                    = before.waves
                             /\ after.waves[Len(after.waves)].msg_count
                                    = before.current_wave_msgs
                             /\ after.current_wave_start = now'
                             /\ after.current_wave_msgs = 1
                      /\ now' - before.last_msg_time <= 500
                          => /\ after.waves = before.waves
                             /\ after.current_wave_start
                                    = before.current_wave_start
                             /\ after.current_wave_msgs
                                    = before.current_wave_msgs + 1
                      /\ (/\ now' = 1000
                          /\ before.waves = << >>
                          /\ before.current_wave_start = 0
                          /\ before.current_wave_msgs = 3
                          /\ before.last_msg_time = 200)
                          => /\ Len(after.waves) = 1
                             /\ after.waves[1].msg_count = 3
                             /\ after.current_wave_start = 1000]_vars

\* the messages of a slave came at 0, 100, 200 and 1000 ms: one closed wave
\* of 3 messages from 0 to 200 ms and an open wave that starts at 1000 ms
C26_Witness ==
    \E id \in DOMAIN wave_stats :
        /\ Len(wave_stats[id].waves) = 1
        /\ wave_stats[id].waves[1].start = 0
        /\ wave_stats[id].waves[1].end = 200
        /\ wave_stats[id].waves[1].msg_count = 3
        /\ wave_stats[id].current_wave_start = 1000
        /\ wave_stats[id].current_wave_msgs = 1
        /\ slave_stats[id].intervals = << 100, 100, 800 >>

C28_ConfigFixedWhileConnected ==
    [][(is_connected /\ config' # config)
          => \E t \in Threads : /\ pc[t] = "idle"
                                /\ op'[t] = "connect"
                                /\ pc'[t] = "c_lock"]_vars

\* C29 as stated: block_read_modify_write given a slave ID outside 1..247,
\* a register address outside 0..65535 or a register value outside 0..65535
\* (such as the baud rate 115200) fails, and no request byte is written to
\* the transport from its call to its return.
C29_InvalidRejectedBeforeIO ==
    [][(/\ call.fn = "block_read_modify_write"
        /\ \/ call.arg[1] \notin 1..247
           \/ \E a \in DOMAIN call.arg[2] :
                  ~Word(a) \/ ~Word(call.arg[2][a]))
          => /\ Running(call) => /\ tx' = tx
                                 /\ stats'.requests_sent = stats.requests_sent
             /\ ~Running(call) => ~call.result.value]_vars

\* C30: no operation blocks indefinitely: a thread whose request cycle has
\* acquired the lock eventually returns to its caller with a ModbusResponse
\* and without the lock, whether the read ended with a complete frame, a
\* frame gap, the overall timeout or an exception of the transport; and
\* under fair scheduling a thread that waits for the lock eventually holds
\* it.
C30_NoOperationBlocks ==
    \A t \in Threads :
        /\ (lock = t /\ pc[t] \in {"sf_reset", "sf_write", "rr_loop"})
               ~> (pc[t] = "idle" /\ lock # t /\ resp[t] # NoResp)
        /\ pc[t] = "sf_lock" ~> lock = t

\* one thread waits for the lock while the other, holding it, has written
\* its request and reads the answer, half of which has arrived
C30_Witness ==
    \E t, u \in Threads :
        /\ lock = t /\ pc[t] = "rr_loop" /\ buffer[t] # << >>
        /\ pc[u] = "sf_lock"

\* the elements of a sequence
Range_of(q) == {q[k] : k \in 1..Len(q)}

\* the distinct slave IDs of the valid responses among the events of a scan
ValidIds(evs) ==
    {evs[k].response.slave_id :
        k \in {j \in 1..Len(evs) : /\ evs[j].kind = "response"
                                    /\ is_valid(evs[j].response)}}

\* C31: in a discovery that is not cancelled, every probe is written while
\* the transport is connected with the baud rate being scanned (the baud
\* rates are taken in list order), and when the scan of a baud rate B ends
\* the list of discovered devices grows by exactly one record tagged B for
\* each distinct slave ID reported in a valid response of that scan; the
\* records of earlier baud rates stay as they are.
C31_ProbesAndRecordsPerBaudRate ==
    [][\A t \in Threads :
           (op[t] = "run_scan" /\ ~stop_scan /\ ~stop_scan')
               => /\ (pc[t] = "sf_write" /\ pc'[t] = "rr_loop")
                      => /\ baud_rates # << >>
                         /\ is_connected /\ serial_connection = "open"
                         /\ config = Head(baud_rates)
                         /\ tx' = ProbeRequest(scan[t].slave_range[scan[t].i],
                                               65535)
                  /\ (pc[t] = "sb_convert" /\ pc'[t] = "rs_loop")
                      => LET n == Len(all_devices)
                             new == SubSeq(all_devices', n + 1,
                                           Len(all_devices'))
                         IN  /\ SubSeq(all_devices', 1, n) = all_devices
                             /\ {d.slave_id : d \in Range_of(new)}
                                    = ValidIds(events)
                             /\ Len(new) = Cardinality(ValidIds(events))
                             /\ \A d \in Range_of(new) :
                                    d.baud_rate = Head(baud_rates)
                             /\ baud_rates' = Tail(baud_rates)]_vars

\* the discovery has ended without being stopped: slave 1 answered at both
\* baud rates and is recorded once for each
C31_Witness ==
    /\ op[DiscoveryThread] = "run_scan" /\ pc[DiscoveryThread] = "idle"
    /\ ~stop_scan
    /\ \E j, k \in 1..Len(all_devices) :
           /\ all_devices[j].slave_id = 1 /\ all_devices[j].baud_rate = 9600
           /\ all_devices[k].slave_id = 1 /\ all_devices[k].baud_rate = 19200
    /\ Len(all_devices) >= 3

\* the start of what follows the j-th closed wave of ws: the next closed
\* wave, or the open wave after the last closed one
NextStart(ws, j) ==
    IF j < Len(ws.waves) THEN ws.waves[j + 1].start ELSE ws.current_wave_start

\* C32: every closed wave in a slave's history has start <= end, duration =
\* end - start and at least one message, and its end is the timestamp of the
\* last message of the wave: the message that closed it came more than the
\* gap threshold later and is the start of the wave that follows, and when
\* a wave is closed its end is the slave's last-message time of before.
C32_ClosedWaves ==
    [][\A s \in DOMAIN wave_stats' :
           LET ws == wave_stats'[s]
               before == Entry(wave_stats, s, new_wave_stats)
           IN  /\ \A j \in 1..Len(ws.waves) :
                      LET w == ws.waves[j]
                      IN  /\ w.start <= w.end
                          /\ w.duration = w.end - w.start
                          /\ w.msg_count >= 1
                          /\ NextStart(ws, j) - w.end > wave_gap_threshold
               /\ Len(ws.waves) > Len(before.waves)
                      => /\ ws.waves[Len(ws.waves)].end = before.last_msg_time
                         /\ ws.waves[Len(ws.waves)].end < now'
                         /\ ws.current_wave_start = now']_vars

\* a wave of two messages 100 ms apart has been closed by a third message
C32_Witness ==
    \E s \in DOMAIN wave_stats :
        \E j \in 1..Len(wave_stats[s].waves) :
            /\ wave_stats[s].waves[j].msg_count = 2
            /\ wave_stats[s].waves[j].duration = 100
            /\ wave_stats[s].waves[j].end < now

\* C33: _capture_frames(max_frames, timeout) returns at most max_frames
\* frames (here MaxFrames), whatever the arrival pattern of the bytes: the
\* list a monitor thread holds, while capturing and after the return, is
\* never longer.
C33_AtMostMaxFrames ==
    Len(worker[CaptureWorker].frames) <= MaxFrames

\* C34: whenever no request cycle is in flight, the counters satisfy
\* requests_sent = responses_received + timeouts + crc_errors, whatever
\* cycles have run: answers of 1 to 4 bytes, transport exceptions and
\* requests issued while disconnected included.
C34_CountersBalance ==
    (\A t \in Threads : pc[t] = "idle")
        => stats.requests_sent
               = stats.responses_received + stats.timeouts + stats.crc_errors

\* C35: when the initial read of block_read_modify_write fails (timeout, CRC
\* error, exception, invalid or incomplete data) the operation returns
\* failure with the error of the read and transmits nothing more: no write
\* request follows; called with an empty update set it returns failure
\* without any I/O.
C35_FailedReadWritesNothing ==
    [][/\ \A t \in Threads :
              (/\ call.fn = "block_read_modify_write" /\ Running(call)
               /\ pc[t] = "idle" /\ op[t] = "read_holding_registers"
               /\ ret[t].value = NoneBytes)
                  => \/ /\ call'.fn = "block_read_modify_write"
                        /\ call'.arg = call.arg
                        /\ call'.result.error
                               = "Failed to read current values: "
                                     \o ret[t].error
                        /\ ~call'.result.value
                        /\ UNCHANGED << master, bus, locals >>
                     \/ /\ Running(call') /\ call'.arg = call.arg
                        /\ tx' = << >>
                        /\ UNCHANGED << master, locals >>
       /\ (/\ call'.fn = "block_read_modify_write"
           /\ DOMAIN call'.arg[2] = {}
           /\ \/ call.fn # "block_read_modify_write"
              \/ call.arg # call'.arg)
              => /\ call'.result.error = "No register updates specified"
                 /\ ~call'.result.value
                 /\ UNCHANGED << master, bus, locals >>]_vars

\* the read of a block was answered with a frame whose CRC does not match:
\* the operation has returned that error, and the last request counted is
\* the read
C35_Witness ==
    /\ call.fn = "block_read_modify_write"
    /\ call.result.error = "Failed to read current values: "
                               \o "CRC error in response"
    /\ ~call.result.value
    /\ stats.crc_errors >= 1
    /\ pc[UpdaterThread] = "idle"
    /\ op[UpdaterThread] = "read_holding_registers"

\* C36: block_read_modify_write is atomic with respect to the other
\* operations on the same Master: from the moment its read request has been
\* written until its write request has been written, no other thread writes
\* a request.
C36_BlockIsAtomic ==
    [][(/\ call.fn = "block_read_modify_write" /\ Running(call)
        /\ \/ /\ op[UpdaterThread] = "read_holding_registers"
              /\ pc[UpdaterThread] \in {"rr_loop", "idle"}
           \/ /\ op[UpdaterThread] = "write_multiple_registers"
              /\ pc[UpdaterThread] \in {"sf_check", "sf_lock", "sf_reset",
                                        "sf_write"})
          => \A u \in Threads \ {UpdaterThread} :
                 ~(pc[u] = "sf_write" /\ pc'[u] = "rr_loop")]_vars

\* C37: whenever block_read_modify_write reports success, the block it has
\* written starts at the lowest updated address, covers every address up to
\* the highest updated address and holds the new value at every address
\* named in register_updates: no requested update is dropped.
C37_SuccessWritesEveryUpdate ==
    (/\ call.fn = "block_read_modify_write"
     /\ call.result.error = "Block write successful")
        => LET register_updates == call.arg[2]
               start_address == MinOf(DOMAIN register_updates)
               count == (MaxOf(DOMAIN register_updates) - start_address) + 1
               written == frame[UpdaterThread]
           IN  /\ written[1] = call.arg[1]
               /\ written[2] = WRITE_MULTIPLE_REGISTERS
               /\ SubSeq(written, 3, 4) = PackBE16(start_address)
               /\ SubSeq(written, 5, 6) = PackBE16(count)
               /\ Len(written) = 9 + 2 * count
               /\ \A a \in DOMAIN register_updates :
                      SubSeq(written, 8 + 2 * (a - start_address),
                             9 + 2 * (a - start_address))
                          = PackBE16(register_updates[a])

\* C38: on a monitor created without a slave-ID list, the first byte of
\* every frame that _analyze_frame_validity accepts is in the known slave
\* set after the frame has been processed, no ID ever leaves that set, and
\* get_current_rates returns an entry for every ID of the set.
C38_AutoDiscovery ==
    [][/\ \A f \in TrafficFrames, dt \in RatesGaps :
              (CallProcessFrame(f, dt) /\ analyze_frame_validity(f))
                  => f[1] \in slave_ids'
       /\ slave_ids \subseteq slave_ids'
       /\ (\E dt \in {0, 100} : GetCurrentRates(dt))
              => DOMAIN call'.result = slave_ids']_vars

\* C39: for each slave with fewer than 100 closed waves, the message counts
\* of the closed waves plus the count of the open wave equal the number of
\* frames passed to wave detection for that slave (none at first, one more
\* with every frame of the slave that is passed on, unchanged otherwise),
\* and the number of recorded wave intervals is max(0, closed waves - 1).
C39_WaveCountsAddUp ==
    [][\A s \in DOMAIN wave_stats' :
           LET before == Entry(wave_stats, s, new_wave_stats)
               after == wave_stats'[s]
               passed == \E f \in PollFrames, dt \in WaveGaps :
                             /\ CallProcessFrameUntil(f, dt, MaxWaveTime)
                             /\ analyze_frame_validity(f)
                             /\ slave_ids = {} \/ f[1] \in slave_ids
                             /\ f[1] = s
           IN  Len(after.waves) < maxlen
                   => /\ Detected(new_wave_stats) = 0
                      /\ Detected(after)
                             = Detected(before) + (IF passed THEN 1 ELSE 0)
                      /\ Len(after.wave_intervals)
                             = Max(0, Len(after.waves) - 1)]_vars

\* a slave has closed three waves (two wave intervals) of one message each
\* and its fourth message has opened a wave
C39_Witness ==
    \E s \in DOMAIN wave_stats :
        /\ Len(wave_stats[s].waves) = 3
        /\ Len(wave_stats[s].wave_intervals) = 2
        /\ wave_stats[s].current_wave_msgs = 1
        /\ Detected(wave_stats[s]) = 4

\* C40: the connected check and the transmit of _send_frame are atomic with
\* respect to disconnect and connect: a request that has passed the check
\* and holds the lock to reset the input buffer and write its frame finds
\* the Master connected and the serial connection open.
C40_CheckAndTransmitAtomic ==
    \A t \in Threads :
        (lock = t /\ pc[t] \in {"sf_reset", "sf_write"})
            => (is_connected /\ serial_connection = "open")

====
